---- MODULE Spec2Model ----
(***************************************************************************)
(* Model of the narrative-aware story graph of the storytelling package    *)
(* (src/storytelling/narrative_story_graph.py) together with the parts of  *)
(* the NCP state, the analytical feedback loop and the emotional enricher  *)
(* that its nodes call.                                                    *)
(*                                                                         *)
(* Scores are integers in hundredths (0.5 is 50, 0.75 is 75).              *)
(* One action is one iteration of the loop of run(): the test of the loop  *)
(* condition, the registry lookup and the whole execute() of the node.     *)
(*                                                                         *)
(* Spec is one call of run(), StreamSpec one call of stream(), TwoRunsSpec *)
(* two calls of run() interleaved on one graph object, and EnrichSpec one  *)
(* call of EmotionalBeatEnricher.analyze_and_enrich.  FlowSpec registers   *)
(* flows on an AnalyticalFeedbackLoop and runs one _remediate_gaps,        *)
(* ArcSpec drives a CharacterArcTracker, GenSpec an                        *)
(* NCPAwareStoryGenerator and ClassifySpec is one call of                  *)
(* EmotionalBeatEnricher.classify_emotion.  GapSpec is one analysis of a   *)
(* beat by an AnalyticalFeedbackLoop and its _identify_gaps.               *)
(***************************************************************************)
EXTENDS Integers, Sequences, FiniteSets, TLC

(***************************************************************************)
(* Bounds of the model                                                     *)
(***************************************************************************)
\* largest max_beats a caller passes
MaxBeats == 4

\* largest max_iterations a caller passes to analyze_and_enrich
MaxIterations == 3

(***************************************************************************)
(* Program constants                                                       *)
(***************************************************************************)
\* QualityThreshold.GOOD, the default of emotional_quality_threshold
QualityThresholdGood == 75
\* the default of enrichment_max_iterations
EnrichmentMaxIterations == 3
\* _route_next: beat.quality_score < 0.5
RegenQuality == 50
\* _route_next: state.enrichments_applied < 3
RegenCap == 3
\* run(): self.config.get('min_quality', 0.6)
MinQualityDefault == 60
\* AnalyticalFeedbackLoop.__init__: gap_threshold default 0.6
GapThreshold == 60
\* AnalyticalFeedbackLoop.__init__: max_gaps_per_beat default 3
MaxGapsPerBeat == 3

\* Python's None where a string is expected (next_node, error, theme)
None == "None"
\* Python's None where a number is expected (an optional argument left out)
NotGiven == -1

\* the ids of the nodes __init__ registers
DefaultNodes == {"ncp_load", "generate_beat", "analyze_beat", "should_continue", "output"}
\* self.entry_node
EntryNode == "ncp_load"
\* tones that ContinuationCheckNode treats as the end of the story
\* the list of tones with 'resolution' left out
EndingTonesWithoutResolution == {"conclusion", "ending"}

EndingTones == {"resolution", "conclusion", "ending"}

(***************************************************************************)
(* What the collaborators outside the graph can answer                     *)
(***************************************************************************)
\* emotional_tone values a generator returns: one ending tone, one other
Tones == {"resolution", "hope"}
\* quality_score the classifier reports for a beat: below the regeneration
\* quality, between it and min_quality, above min_quality
EmotionLevels == {40, 56, 80}
\* thematic presence: no theme word found, all theme words found
PresenceLevels == {0, 100}
\* improvement_delta the enricher reports with was_enriched: no gain, a
\* large gain
DeltaLevels == {0, 60}
\* quality_score values the classifier's sub-scores weigh to
QualityLevels == {50, 53, 65, 72, 76, 80}
\* target_threshold arguments: left out, 0.0, 0.65
ThresholdArguments == {NotGiven, 0, 65}
\* enrichment_min_improvement settings: 0.0 and the default 0.05
MinImprovements == {0, 5}
\* custom nodes a host registers through add_node: the id it registers the
\* node under and the next_node the node sets ("publish" is registered nowhere)
CustomNodes == {<<"ncp_load", "analyze_beat">>, <<"ncp_load", "publish">>, <<"ncp_load", None>>,
                <<"output", "publish">>}

VARIABLES
    pc,                  \* "idle", "running", "yielding" (stream() suspended at a yield),
                         \* "done" (run() returned), "raised" (run() raised)
    nodes,               \* self.nodes: node id -> "default" or the next_node of a custom node
    stats,               \* self.feedback_loop.stats, shared by all runs of the graph
    context,             \* GraphState.context
    ncp_state,           \* GraphState.ncp_state
    beats,               \* GraphState.beats
    current_beat_index,  \* GraphState.current_beat_index
    enrichments_applied, \* GraphState.enrichments_applied
    node_results,        \* GraphState.node_results
    next_node,           \* GraphState.next_node
    should_continue,     \* GraphState.should_continue
    current_node,        \* the local current_node of run()
    executions,          \* number of node.execute() calls made by run()
    cancelled,           \* the host cancelled the run at an await
    mode,                \* "run" or "stream": which of the two loops is executing
    last_beat_count,     \* the local last_beat_count of stream()
    yielded,             \* the beats stream() has yielded, in order
    enricher,            \* one call of EmotionalBeatEnricher.analyze_and_enrich
    task,                \* which of two run() coroutines the event loop is executing
    suspended,           \* the locals of the other run() coroutine
    feedback,            \* an AnalyticalFeedbackLoop: its flow_routes and one _remediate_gaps call
    tracker,             \* a CharacterArcTracker
    generator,           \* an NCPAwareStoryGenerator and its NCPState
    classifier,          \* one call of EmotionalBeatEnricher.classify_emotion
    analyzer             \* an AnalyticalFeedbackLoop, one analysis and its _identify_gaps

\* the locals of stream() and what its consumer has received
stream_vars == <<mode, last_beat_count, yielded>>

\* the components that are exercised on their own, outside a graph run
\* two run() calls on one graph: the variables above hold the locals of
\* the coroutine that executes, `suspended` those of the one that waits
task_vars == <<task, suspended>>

\* the components that are exercised on their own besides the enricher
unit_vars == <<feedback, tracker, generator, classifier, analyzer>>

component_vars == <<enricher, task_vars, unit_vars>>

vars == <<pc, nodes, stats, context, ncp_state, beats, current_beat_index,
          enrichments_applied, node_results, next_node, should_continue,
          current_node, executions, cancelled, stream_vars, component_vars>>

graph_state == <<context, ncp_state, beats, current_beat_index,
                 enrichments_applied, node_results, next_node, should_continue>>

(***************************************************************************)
(* NCPState (narrative_intelligence_integration.py)                        *)
(***************************************************************************)
\* the fields of the NCPState dataclass
NCPStateFields == {"beats", "current_beat_index", "active_perspective", "active_theme",
                   "character_states", "dramatic_phase", "act_number", "tension_level",
                   "universe_analysis", "lead_universe", "coherence_score",
                   "identified_gaps", "enrichment_count", "story_id", "session_id"}

\* the keyword arguments NCPLoadNode.execute passes to NCPState(...)
NCPLoadKwargs == {"session_id", "story_id", "active_universe", "active_perspective", "active_theme"}

\* a dataclass __init__ raises TypeError on a keyword that is not a field
NCPStateCtorRaises(kwargs) == ~(kwargs \subseteq NCPStateFields)

\* reading an attribute that is not a field raises AttributeError
NCPStateHasAttr(name) == name \in NCPStateFields

\* GraphState.ncp_state = None
NoNCPState == [exists |-> FALSE, active_perspective |-> None, active_theme |-> None,
               ncp_metadata |-> {}]

\* an NCPState built by the dataclass constructor
NCPState(perspective, theme) ==
    [exists |-> TRUE, active_perspective |-> perspective, active_theme |-> theme,
     ncp_metadata |-> {}]

(***************************************************************************)
(* NodeResult                                                              *)
(***************************************************************************)
NodeResult(id, status, err) == [node_id |-> id, status |-> status, error |-> err]

Last(s) == s[Len(s)]

(***************************************************************************)
(* EmotionalBeatEnricher: the arguments and locals of analyze_and_enrich   *)
(***************************************************************************)
\* the original beat is version 0; the k-th rewrite call that succeeds
\* produces version k
Version(v, q) == [version |-> v, quality |-> q]

\* no call of analyze_and_enrich in progress
NoEnrichment ==
    [pc |-> "idle", target_threshold |-> NotGiven, max_iterations |-> NotGiven,
     threshold |-> 0, max_iter |-> 0, min_improvement |-> 0, iteration |-> 0,
     initial |-> Version(0, 0), current |-> Version(0, 0), enriched |-> 0,
     classified |-> <<>>, rewrite_calls |-> 0, classify_calls |-> 0,
     result |-> [iterations |-> 0, was_enriched |-> FALSE, final_beat |-> 0,
                 final_quality |-> 0, improvement_delta |-> 0]]

(***************************************************************************)
(* FlowRoute and DEFAULT_FLOW_ROUTES (analytical_feedback_loop.py)         *)
(***************************************************************************)
\* the members of GapType
GapTypes == {"emotional_weak", "emotional_mismatch", "character_inconsistent",
             "character_static", "theme_missing", "theme_contradiction",
             "pacing_issue", "dialogue_weak"}

\* a FlowRoute; `handler` tells whether a callable was given (the default is None)
FlowRoute(id, priority, gap_types, handler) ==
    [flow_id |-> id, priority |-> priority, gap_types |-> gap_types, handler |-> handler]

\* the None that _find_flow_for_gap returns, as a route without gap types
NoFlowRoute == FlowRoute(None, 0, {}, FALSE)

DefaultFlowRoutes ==
    <<FlowRoute("emotional_enrichment", 1, {"emotional_weak", "emotional_mismatch"}, FALSE),
      FlowRoute("character_consistency", 2, {"character_inconsistent"}, FALSE),
      FlowRoute("character_development", 3, {"character_static"}, FALSE),
      FlowRoute("thematic_weaving", 4, {"theme_missing", "theme_contradiction"}, FALSE),
      FlowRoute("dialogue_enhancement", 5, {"dialogue_weak"}, FALSE)>>

\* the beat _remediate_gaps is called with
OriginalBeat ==
    [beat_id |-> "beat_1", beat_index |-> 1, character_id |-> "hero", raw_text |-> "original",
     enrichments_applied |-> <<>>, quality_score |-> 0]

\* an Enrichment as _execute_enrichment_flow builds it
Enrichment(flow_id, enriched_content, improvement_score, applied) ==
    [flow_id |-> flow_id, enriched_content |-> enriched_content,
     improvement_score |-> improvement_score, applied |-> applied]

\* _execute_enrichment_flow returned None, or was not called
NoEnrichmentReturned == Enrichment(None, None, 0, FALSE)

\* AnalyticalFeedbackLoop.__init__: a copy of the default routes; no
\* _remediate_gaps call in progress.  `registered` is the sequence of
\* register_flow arguments, `log` what each iteration of the loop of
\* _remediate_gaps saw and did, `handled` the gaps a handler was called for
NewFeedbackLoop ==
    [flow_routes |-> DefaultFlowRoutes, registered |-> <<>>,
     pc |-> "idle", gaps |-> <<>>, position |-> 1, current_beat |-> OriginalBeat,
     log |-> <<>>, handled |-> <<>>]

(***************************************************************************)
(* ArcPoint and CharacterArcState (narrative_intelligence_integration.py)  *)
(***************************************************************************)
\* an ArcPoint: impact_magnitude in hundredths
ArcPoint(direction, impact) == [arc_direction |-> direction, impact_magnitude |-> impact]

\* CharacterArcState(player_id, name): the dataclass defaults; arc_position
\* in thousandths (1000 is 1.0), so that 0.1 * impact_magnitude is exact
CharacterArcState == [tracked |-> TRUE, arc_points |-> <<>>, arc_position |-> 0]

\* CharacterArcTracker.__init__: character_states has no entry for the player
NoCharacter == [tracked |-> FALSE, arc_points |-> <<>>, arc_position |-> 0]

\* no beat was returned yet
NoBeat ==
    [beat_index |-> 0, raw_text |-> None, character_id |-> None, dialogue |-> None,
     action |-> None, internal |-> None, emotional_tone |-> None, theme_resonance |-> None]

\* NCPAwareStoryGenerator.__init__: self.ncp_state = NCPState(), no character
\* registered, the llm_provider not called yet; `last` is what the last
\* call of generate_beat_with_ncp got from the LLM and what it returned
NewGenerator ==
    [beats |-> <<>>, current_beat_index |-> 0, character |-> NoCharacter, llm_calls |-> 0,
     last |-> [llm |-> None, beat |-> NoBeat]]

\* EmotionalAnalysis: the dataclass defaults are 0.0 for every score
EmotionalAnalysis(primary_emotion, confidence) ==
    [primary_emotion |-> primary_emotion, confidence |-> confidence, resonance_score |-> 0,
     specificity_score |-> 0, authenticity_score |-> 0, quality_score |-> 0]

\* classify_emotion was not called yet
NotClassified ==
    [called |-> FALSE, outcome |-> [raised |-> FALSE, response |-> None],
     analysis |-> EmotionalAnalysis(None, 0)]

\* MultiDimensionalAnalysis: the primary score of each dimension, NotGiven
\* for a dimension that is None
MultiDimensionalAnalysis(beat_id, emotional, character, thematic) ==
    [beat_id |-> beat_id, emotional |-> emotional, character |-> character,
     thematic |-> thematic]

\* no AnalyticalFeedbackLoop was constructed yet
NotConfigured ==
    [pc |-> "new", gap_threshold |-> 0, max_gaps_per_beat |-> 0, text |-> None,
     analysis |-> MultiDimensionalAnalysis(None, NotGiven, NotGiven, NotGiven), gaps |-> <<>>]

\* the locals of a run() that was not called yet: the GraphState defaults
NotStarted ==
    [pc |-> "idle",
     context |-> [max_beats |-> 0, min_quality |-> MinQualityDefault, ncp_data |-> "absent",
                  perspective |-> None, theme |-> None],
     ncp_state |-> NoNCPState, beats |-> <<>>, current_beat_index |-> 0,
     enrichments_applied |-> 0, node_results |-> <<>>, next_node |-> None,
     should_continue |-> TRUE, current_node |-> None, executions |-> 0, cancelled |-> FALSE]

(***************************************************************************)
(* Construction: GraphState defaults and NarrativeAwareStoryGraph.__init__ *)
(***************************************************************************)
Init ==
    /\ pc = "idle"
    /\ nodes = [n \in DefaultNodes |-> "default"]
    /\ stats = [beats_analyzed |-> 0, gaps_identified |-> 0, gaps_remediated |-> 0]
    /\ context = [max_beats |-> 0, min_quality |-> MinQualityDefault, ncp_data |-> "absent",
                  perspective |-> None, theme |-> None]
    /\ ncp_state = NoNCPState
    /\ beats = <<>>
    /\ current_beat_index = 0
    /\ enrichments_applied = 0
    /\ node_results = <<>>
    /\ next_node = None
    /\ should_continue = TRUE
    /\ current_node = None
    /\ executions = 0
    /\ cancelled = FALSE
    /\ mode = "run"
    /\ last_beat_count = 0
    /\ yielded = <<>>
    /\ enricher = NoEnrichment
    /\ task = 1
    /\ suspended = NotStarted
    /\ feedback = NewFeedbackLoop
    /\ tracker = NoCharacter
    /\ generator = NewGenerator
    /\ classifier = NotClassified
    /\ analyzer = NotConfigured


(***************************************************************************)
(* Exceptions                                                              *)
(***************************************************************************)
\* what an awaited collaborator can raise: an ordinary error, or the
\* cancellation of the task by the host
Raisable == {"RuntimeError", "CancelledError"}

\* `except Exception` catches the subclasses of Exception; since Python 3.8
\* asyncio.CancelledError derives from BaseException
CaughtByExceptException(exc) == exc # "CancelledError"

(***************************************************************************)
(* StoryBeat                                                               *)
(***************************************************************************)
\* the beat a generator returns: quality_score and enrichments_applied are
\* the dataclass defaults
StoryBeat(id, tone) ==
    [beat_id |-> id, emotional_tone |-> tone, quality_score |-> 0, enrichments_applied |-> <<>>]

(***************************************************************************)
(* AnalyticalFeedbackLoop (analytical_feedback_loop.py)                    *)
(***************************************************************************)
RECURSIVE SumSeq(_)
SumSeq(s) == IF s = <<>> THEN 0 ELSE s[1] + SumSeq(Tail(s))

\* _analyze_beat: the primary scores of the dimensions analysed; the graph
\* registers no character state, so the character dimension is absent
AnalysisScores(ncp, emo, pres) ==
    <<emo>> \o (IF ncp.active_theme # None THEN <<pres>> ELSE <<>>)

\* _analyze_beat: overall quality is the mean of the scores present
OverallQuality(ncp, emo, pres) ==
    LET scores == AnalysisScores(ncp, emo, pres)
    IN  SumSeq(scores) \div Len(scores)

\* _identify_gaps: one gap per dimension below the threshold, sorted by
\* ascending score (stable), cut to max_gaps_per_beat
IdentifyGaps(ncp, emo, pres) ==
    LET e == IF emo < GapThreshold
             THEN <<[gap_type |-> "emotional_weak", score |-> emo]>> ELSE <<>>
        t == IF ncp.active_theme # None /\ pres < GapThreshold
             THEN <<[gap_type |-> "theme_missing", score |-> pres]>> ELSE <<>>
        sorted == IF e # <<>> /\ t # <<>> /\ t[1].score < e[1].score THEN t \o e ELSE e \o t
    IN  SubSeq(sorted, 1, IF Len(sorted) < MaxGapsPerBeat THEN Len(sorted) ELSE MaxGapsPerBeat)

\* _find_flow_for_gap over DEFAULT_FLOW_ROUTES
FindFlowForGap(gap_type) ==
    CASE gap_type \in {"emotional_weak", "emotional_mismatch"} -> "emotional_enrichment"
      [] gap_type = "character_inconsistent" -> "character_consistency"
      [] gap_type = "character_static" -> "character_development"
      [] gap_type \in {"theme_missing", "theme_contradiction"} -> "thematic_weaving"
      [] gap_type = "dialogue_weak" -> "dialogue_enhancement"
      [] OTHER -> None

\* _execute_enrichment_flow: only the emotional flow returns an Enrichment,
\* and only when the enricher reports was_enriched
FlowApplies(flow, was_enriched) == flow = "emotional_enrichment" /\ was_enriched

\* _apply_enrichment: a new beat with the flow id appended to
\* enrichments_applied and improvement_score added to quality_score
ApplyEnrichment(beat, flow, improvement) ==
    [beat EXCEPT !.enrichments_applied = Append(@, flow),
                 !.quality_score = @ + improvement]

\* _remediate_gaps: the gaps in order, each applied enrichment replacing
\* the current beat
RECURSIVE RemediateGaps(_, _, _, _)
RemediateGaps(beat, gaps, was_enriched, delta) ==
    IF gaps = <<>> THEN beat
    ELSE LET flow == FindFlowForGap(gaps[1].gap_type)
         IN  RemediateGaps(IF FlowApplies(flow, was_enriched)
                           THEN ApplyEnrichment(beat, flow, delta) ELSE beat,
                           Tail(gaps), was_enriched, delta)

\* the last assignment of process_beat_with_analysis as `+=`
ProcessBeatWithAnalysisSummed(beat, ncp, emo, pres, was_enriched, delta) ==
    [RemediateGaps(beat, IdentifyGaps(ncp, emo, pres), was_enriched, delta)
        EXCEPT !.quality_score = @ + OverallQuality(ncp, emo, pres)]

\* process_beat_with_analysis, when nothing raises: the remediated beat,
\* with quality_score overwritten by the overall quality of the analysis
ProcessBeatWithAnalysis(beat, ncp, emo, pres, was_enriched, delta) ==
    [RemediateGaps(beat, IdentifyGaps(ncp, emo, pres), was_enriched, delta)
        EXCEPT !.quality_score = OverallQuality(ncp, emo, pres)]

\* process_beat_with_analysis and _remediate_gaps: the counters of
\* self.stats after a beat was processed into `processed` with these gaps
ProcessingStats(st, beat, processed, gaps) ==
    [beats_analyzed  |-> st.beats_analyzed + 1,
     gaps_identified |-> st.gaps_identified + Len(gaps),
     gaps_remediated |-> st.gaps_remediated
                            + (Len(processed.enrichments_applied) - Len(beat.enrichments_applied))]

\* _analyze_beat reads ncp_state.character_states and ncp_state.active_theme:
\* with ncp_state None it raises AttributeError
AnalysisRaisesWithout(ncp) == ~ncp.exists

(***************************************************************************)
(* AnalysisNode._route_next                                                *)
(***************************************************************************)
\* _route_next with `>` for `>=` in the max_beats test
RouteNextOffByOne(index, max_beats, quality, applied) ==
    IF index > max_beats THEN "output"
    ELSE IF quality < RegenQuality /\ applied < RegenCap THEN "generate_beat"
    ELSE "should_continue"

\* _route_next with the regeneration test before the max_beats test
RouteNextRegenerationFirst(index, max_beats, quality, applied) ==
    IF quality < RegenQuality /\ applied < RegenCap THEN "generate_beat"
    ELSE IF index >= max_beats THEN "output"
    ELSE "should_continue"

\* _route_next without the max_beats test
RouteNextUncapped(index, max_beats, quality, applied) ==
    IF quality < RegenQuality /\ applied < RegenCap THEN "generate_beat"
    ELSE "should_continue"

\* _route_next sending a low-quality beat back to analyze_beat
RouteNextReanalyses(index, max_beats, quality, applied) ==
    IF index >= max_beats THEN "output"
    ELSE IF quality < RegenQuality /\ applied < RegenCap THEN "analyze_beat"
    ELSE "should_continue"

RouteNext(index, max_beats, quality, applied) ==
    IF index >= max_beats THEN "output"
    ELSE IF quality < RegenQuality /\ applied < RegenCap THEN "generate_beat"
    ELSE "should_continue"

\* the counter advanced by one for every analysed beat
TrackEnrichmentsPerBeat(applied, beat) == applied + 1

\* the counter assigned (`=`) where the node adds (`+=`)
TrackEnrichmentsAssigned(applied, beat) == Len(beat.enrichments_applied)

\* AnalysisNode.execute: state.enrichments_applied += len(beat.enrichments_applied)
TrackEnrichments(applied, beat) == applied + Len(beat.enrichments_applied)

\* the beat appended without the index being advanced
NextBeatIndexStuck(index) == index

\* BeatGenerationNode.execute: state.current_beat_index += 1
NextBeatIndex(index) == index + 1

\* the except branch without `state.should_continue = False`
ContinueAfterGenerateFailureKept == TRUE

\* BeatGenerationNode.execute, except branch: state.should_continue = False
ContinueAfterGenerateFailure == FALSE

\* the except branch writing a fallback score into the last beat
BeatsRescoredAfterAnalysisFailure(bs) == [bs EXCEPT ![Len(bs)].quality_score = 50]

\* AnalysisNode.execute, except branch: the beats are not touched
BeatsAfterAnalysisFailure(bs) == bs

\* the unknown node recorded as a FAILED result before the break
ResultsWithUnknownNode(results, id) == Append(results, NodeResult(id, "FAILED", "KeyError"))

\* run(): `if not node: ... break` leaves node_results as they are
ResultsAfterUnknownNode(results, id) == results

(***************************************************************************)
(* The loop of run()                                                       *)
(***************************************************************************)
\* while state.should_continue and current_node
LoopRuns == pc = "running" /\ should_continue /\ current_node # None

\* self.nodes.get(current_node) finds a default node
Selected(id) == LoopRuns /\ current_node = id /\ current_node \in DOMAIN nodes
                /\ nodes[current_node] = "default"

\* state = await node.execute(state); current_node = state.next_node.
\* In stream() the new beats are yielded between the two: the generator is
\* suspended at the yield until its consumer asks for the next item.
Executed == /\ executions' = executions + 1
            /\ IF mode = "stream" /\ last_beat_count < Len(beats')
               THEN pc' = "yielding" /\ UNCHANGED current_node
               ELSE pc' = pc /\ current_node' = next_node'
            /\ UNCHANGED <<nodes, context, cancelled, stream_vars, component_vars>>

\* an exception that leaves execute() leaves run() as well
Propagates(exc) ==
    /\ pc' = "raised"
    /\ cancelled' = (exc = "CancelledError")
    /\ executions' = executions + 1
    /\ UNCHANGED <<nodes, graph_state, current_node, stream_vars, component_vars>>

\* add_node: self.nodes[node.node_id] = node, before the run
AddNode(id, target) ==
    /\ pc = "idle"
    /\ \A n \in DOMAIN nodes : nodes[n] = "default"
    /\ nodes' = [nodes EXCEPT ![id] = target]
    /\ UNCHANGED <<pc, stats, graph_state, current_node, executions, cancelled, stream_vars,
                   component_vars>>

\* run(): the GraphState is built, the config defaults applied, and the
\* loop starts at the entry node.  run() itself always starts with
\* ncp_state None; `supplied` is the NCPState a host has put into the
\* GraphState before the nodes execute (as tests/test_narrative_intelligence.py
\* builds it), the only states in which the default ncp_load completes.
RunStart(max_beats, ncp_data, supplied) ==
    /\ pc = "idle"
    /\ pc' = "running"
    /\ context' = [max_beats |-> max_beats, min_quality |-> MinQualityDefault,
                   ncp_data |-> ncp_data, perspective |-> "main_character", theme |-> "loss"]
    /\ ncp_state' = supplied
    /\ current_node' = EntryNode
    /\ UNCHANGED <<nodes, stats, beats, current_beat_index, enrichments_applied, node_results,
                   next_node, should_continue, executions, cancelled, stream_vars, component_vars>>

\* NCPLoadNode.execute
ExecNcpLoad ==
    /\ Selected("ncp_load")
    /\ LET ctorFails == ~ncp_state.exists /\ NCPStateCtorRaises(NCPLoadKwargs)
           loaded    == IF ncp_state.exists THEN ncp_state
                        ELSE NCPState(context.perspective, context.theme)
           mergeFails == context.ncp_data = "dict" /\ ~NCPStateHasAttr("ncp_metadata")
       IN  IF ctorFails
           THEN /\ node_results' = Append(node_results, NodeResult("ncp_load", "FAILED", "TypeError"))
                /\ should_continue' = FALSE
                /\ UNCHANGED <<ncp_state, next_node>>
           ELSE IF mergeFails
           THEN /\ ncp_state' = loaded
                /\ node_results' = Append(node_results, NodeResult("ncp_load", "FAILED", "AttributeError"))
                /\ should_continue' = FALSE
                /\ UNCHANGED next_node
           ELSE /\ ncp_state' = IF context.ncp_data = "dict"
                                THEN [loaded EXCEPT !.ncp_metadata = @ \cup {"ncp_data"}]
                                ELSE loaded
                /\ node_results' = Append(node_results, NodeResult("ncp_load", "COMPLETED", None))
                /\ next_node' = "generate_beat"
                /\ UNCHANGED should_continue
    /\ UNCHANGED <<stats, beats, current_beat_index, enrichments_applied>>
    /\ Executed

\* BeatGenerationNode.execute: the generator returns a beat
GenerateBeatReturns(tone) ==
    /\ beats' = Append(beats, StoryBeat(Len(beats) + 1, tone))
    /\ current_beat_index' = NextBeatIndex(current_beat_index)
    /\ node_results' = Append(node_results, NodeResult("generate_beat", "COMPLETED", None))
    /\ next_node' = "analyze_beat"
    /\ UNCHANGED <<stats, ncp_state, enrichments_applied, should_continue>>
    /\ Executed

\* BeatGenerationNode.execute: the generator raises
GenerateBeatRaises(exc) ==
    /\ IF CaughtByExceptException(exc)
       THEN /\ node_results' = Append(node_results, NodeResult("generate_beat", "FAILED", exc))
            /\ should_continue' = ContinueAfterGenerateFailure
            /\ UNCHANGED <<ncp_state, beats, current_beat_index, enrichments_applied, next_node>>
            /\ Executed
       ELSE Propagates(exc)
    /\ UNCHANGED stats

ExecGenerateBeat ==
    /\ Selected("generate_beat")
    /\ \/ \E tone \in Tones : GenerateBeatReturns(tone)
       \/ \E exc \in Raisable : GenerateBeatRaises(exc)

\* AnalysisNode.execute: no beat to analyse; returns before state.update()
AnalyzeNothing ==
    /\ beats = <<>>
    /\ next_node' = "output"
    /\ UNCHANGED <<stats, ncp_state, beats, current_beat_index, enrichments_applied, node_results,
                   should_continue>>
    /\ Executed

\* AnalysisNode.execute: process_beat_with_analysis returns
AnalyzeBeatReturns(emo, pres, was_enriched, delta) ==
    /\ beats # <<>>
    /\ ~AnalysisRaisesWithout(ncp_state)
    /\ LET enriched == ProcessBeatWithAnalysis(Last(beats), ncp_state, emo, pres, was_enriched, delta)
           applied  == TrackEnrichments(enrichments_applied, enriched)
       IN  /\ stats' = ProcessingStats(stats, Last(beats), enriched, IdentifyGaps(ncp_state, emo, pres))
           /\ beats' = [beats EXCEPT ![Len(beats)] = enriched]
           /\ enrichments_applied' = applied
           /\ node_results' = Append(node_results, NodeResult("analyze_beat", "COMPLETED", None))
           /\ next_node' = RouteNext(current_beat_index, context.max_beats,
                                     enriched.quality_score, applied)
    /\ UNCHANGED <<ncp_state, current_beat_index, should_continue>>
    /\ Executed

\* AnalysisNode.execute: process_beat_with_analysis raises (in _analyze_beat,
\* after the beat was counted)
AnalyzeBeatRaises(exc) ==
    /\ beats # <<>>
    /\ stats' = [stats EXCEPT !.beats_analyzed = @ + 1]
    /\ IF CaughtByExceptException(exc)
       THEN /\ node_results' = Append(node_results, NodeResult("analyze_beat", "FAILED", exc))
            /\ next_node' = "output"
            /\ beats' = BeatsAfterAnalysisFailure(beats)
            /\ UNCHANGED <<ncp_state, current_beat_index, enrichments_applied, should_continue>>
            /\ Executed
       ELSE Propagates(exc)

ExecAnalyzeBeat ==
    /\ Selected("analyze_beat")
    /\ \/ AnalyzeNothing
       \/ \E emo \in EmotionLevels, was_enriched \in BOOLEAN,
             pres \in (IF ncp_state.active_theme # None THEN PresenceLevels ELSE {0}) :
              \E delta \in (IF was_enriched THEN DeltaLevels ELSE {0}) :
                 AnalyzeBeatReturns(emo, pres, was_enriched, delta)
       \/ \E exc \in Raisable : AnalyzeBeatRaises(exc)

\* ContinuationCheckNode.execute
ExecShouldContinue ==
    /\ Selected("should_continue")
    /\ LET stop == \/ current_beat_index >= context.max_beats
                   \/ /\ beats # <<>>
                      /\ Last(beats).quality_score >= context.min_quality
                      /\ Last(beats).emotional_tone \in EndingTones
       IN  /\ should_continue' = IF stop THEN FALSE ELSE should_continue
           /\ next_node' = IF stop THEN "output" ELSE "generate_beat"
    /\ node_results' = Append(node_results, NodeResult("should_continue", "COMPLETED", None))
    /\ UNCHANGED <<stats, ncp_state, beats, current_beat_index, enrichments_applied>>
    /\ Executed

\* OutputNode.execute
ExecOutput ==
    /\ Selected("output")
    /\ should_continue' = FALSE
    /\ node_results' = Append(node_results, NodeResult("output", "COMPLETED", None))
    /\ UNCHANGED <<stats, ncp_state, beats, current_beat_index, enrichments_applied, next_node>>
    /\ Executed

\* a node registered through add_node: records its execution and names the
\* next node
ExecCustom ==
    /\ LoopRuns
    /\ current_node \in DOMAIN nodes
    /\ nodes[current_node] # "default"
    /\ node_results' = Append(node_results, NodeResult(current_node, "COMPLETED", None))
    /\ next_node' = nodes[current_node]
    /\ UNCHANGED <<stats, ncp_state, beats, current_beat_index, enrichments_applied, should_continue>>
    /\ Executed

\* run(): self.nodes.get(current_node) is None: log and break
UnknownNode ==
    /\ LoopRuns
    /\ current_node \notin DOMAIN nodes
    /\ pc' = "done"
    /\ node_results' = ResultsAfterUnknownNode(node_results, current_node)
    /\ UNCHANGED <<nodes, stats, context, ncp_state, beats, current_beat_index, enrichments_applied,
                   next_node, should_continue, current_node, executions, cancelled, stream_vars,
                   component_vars>>

\* run(): the loop condition is false: return state
Return ==
    /\ pc = "running"
    /\ ~(should_continue /\ current_node # None)
    /\ pc' = "done"
    /\ UNCHANGED <<nodes, stats, graph_state, current_node, executions, cancelled, stream_vars,
                   component_vars>>

\* the ncp_state the loop starts with: None (run()'s fresh GraphState), or
\* an NCPState(session_id, story_id) supplied by the host
SuppliedStates == {NoNCPState, NCPState(None, None)}

Next ==
    \/ \E c \in CustomNodes : AddNode(c[1], c[2])
    \/ \E m \in 0..MaxBeats, d \in {"absent", "dict"}, s \in SuppliedStates : RunStart(m, d, s)
    \/ ExecNcpLoad
    \/ ExecGenerateBeat
    \/ ExecAnalyzeBeat
    \/ ExecShouldContinue
    \/ ExecOutput
    \/ ExecCustom
    \/ UnknownNode
    \/ Return

Spec == Init /\ [][Next]_vars

(***************************************************************************)
(* The loop of stream()                                                    *)
(***************************************************************************)
\* the yield loop with the counter left where it was
NextBeatCountStuck(count) == count

\* stream(): last_beat_count += 1
NextBeatCount(count) == count + 1

\* stream(): the GraphState is built, the config defaults applied, and the
\* loop starts at the entry node with last_beat_count = 0
StreamStart(max_beats, ncp_data, supplied) ==
    /\ pc = "idle"
    /\ pc' = "running"
    /\ mode' = "stream"
    /\ context' = [max_beats |-> max_beats, min_quality |-> MinQualityDefault,
                   ncp_data |-> ncp_data, perspective |-> "main_character", theme |-> "loss"]
    /\ ncp_state' = supplied
    /\ current_node' = EntryNode
    /\ last_beat_count' = 0
    /\ UNCHANGED <<nodes, stats, beats, current_beat_index, enrichments_applied, node_results,
                   next_node, should_continue, executions, cancelled, yielded, component_vars>>

\* the yield loop left without `current_node = state.next_node`
NodeAfterYieldKept(current, next) == current

\* stream(): current_node = state.next_node, after the yield loop
NodeAfterYield(current, next) == next

\* stream(): while last_beat_count < len(state.beats): yield the beat at
\* last_beat_count and advance; after the last one, current_node = state.next_node
Yield ==
    /\ pc = "yielding"
    /\ last_beat_count < Len(beats)
    /\ yielded' = Append(yielded, beats[last_beat_count + 1])
    /\ last_beat_count' = NextBeatCount(last_beat_count)
    /\ IF last_beat_count' < Len(beats)
       THEN UNCHANGED <<pc, current_node>>
       ELSE pc' = "running" /\ current_node' = NodeAfterYield(current_node, next_node)
    /\ UNCHANGED <<mode, nodes, stats, graph_state, executions, cancelled, component_vars>>

StreamNext ==
    \/ \E m \in 0..MaxBeats, d \in {"absent", "dict"}, s \in SuppliedStates : StreamStart(m, d, s)
    \/ ExecNcpLoad
    \/ ExecGenerateBeat
    \/ ExecAnalyzeBeat
    \/ ExecShouldContinue
    \/ ExecOutput
    \/ Yield
    \/ Return

StreamSpec == Init /\ [][StreamNext]_vars

(***************************************************************************)
(* EmotionalBeatEnricher.analyze_and_enrich (emotional_beat_enricher.py)   *)
(***************************************************************************)
\* Python's `x or default`: None and 0 are both false
Or(x, default) == IF x = NotGiven \/ x = 0 THEN default ELSE x

\* what the LLM answers to a classification prompt: it raises, or it
\* returns sub-scores that weigh to this quality_score
ClassifierResponses ==
    {[ok |-> FALSE, quality |-> 0]} \cup {[ok |-> TRUE, quality |-> q] : q \in QualityLevels}

\* classify_emotion: an LLM failure is caught and gives confidence 0.0 with
\* the other sub-scores at their default 0.0, hence quality_score 0.0
ClassifyEmotion(resp) == IF resp.ok THEN resp.quality ELSE 0

\* quality_score >= threshold
MeetsThreshold(q, threshold) == q >= threshold

\* the improvement test left out
ImprovementNeverTooSmall(improvement, min_improvement) == FALSE

\* if improvement < self.min_improvement: break
ImprovementTooSmall(improvement, min_improvement) == improvement < min_improvement

\* _should_continue_enrichment
ShouldContinueEnrichment(q, threshold, iteration, max_iterations) ==
    IF MeetsThreshold(q, threshold) THEN FALSE
    ELSE IF iteration >= max_iterations THEN FALSE
    ELSE TRUE

\* the return statement after the loop
EnrichedBeatResult(e) ==
    [e EXCEPT !.pc = "returned",
              !.result = [iterations |-> e.iteration,
                          was_enriched |-> e.iteration > 0,
                          final_beat |-> e.current.version,
                          final_quality |-> e.current.quality,
                          improvement_delta |-> e.current.quality - e.initial.quality]]

\* the head of the loop: `while iteration < max_iter`, `iteration += 1`,
\* and the _should_continue_enrichment test that breaks out of the loop
LoopHead(e) ==
    IF e.iteration < e.max_iter
    THEN LET it == e.iteration + 1
         IN  IF ShouldContinueEnrichment(e.current.quality, e.threshold, it, e.max_iter)
             THEN [e EXCEPT !.iteration = it, !.pc = "rewriting"]
             ELSE EnrichedBeatResult([e EXCEPT !.iteration = it])
    ELSE EnrichedBeatResult(e)

\* analyze_and_enrich is called: the threshold and the iteration cap are
\* fixed and the first classification is awaited
AnalyzeAndEnrich(target_threshold, max_iterations, min_improvement) ==
    /\ enricher.pc = "idle"
    /\ enricher' = [NoEnrichment EXCEPT
                        !.pc = "classifying",
                        !.target_threshold = target_threshold,
                        !.max_iterations = max_iterations,
                        !.threshold = Or(target_threshold, QualityThresholdGood),
                        !.max_iter = Or(max_iterations, EnrichmentMaxIterations),
                        !.min_improvement = min_improvement]
    /\ UNCHANGED <<pc, nodes, stats, graph_state, current_node, executions, cancelled, stream_vars,
                   task_vars, unit_vars>>

\* the initial classification returns: the short-circuit return when the
\* threshold is met, else the first pass through the head of the loop
ClassifyInitial(resp) ==
    /\ enricher.pc = "classifying"
    /\ LET q == ClassifyEmotion(resp)
           e == [enricher EXCEPT !.initial = Version(0, q),
                                 !.current = Version(0, q),
                                 !.classified = <<Version(0, q)>>,
                                 !.classify_calls = 1]
       IN  enricher' =
               IF MeetsThreshold(q, e.threshold)
               THEN [e EXCEPT !.pc = "returned",
                              !.result = [iterations |-> 0, was_enriched |-> FALSE,
                                          final_beat |-> 0, final_quality |-> q,
                                          improvement_delta |-> 0]]
               ELSE LoopHead(e)
    /\ UNCHANGED <<pc, nodes, stats, graph_state, current_node, executions, cancelled, stream_vars,
                   task_vars, unit_vars>>

\* _enrich_beat: the rewrite call returns a new beat, or its failure is
\* caught and the beat comes back as it went in
EnrichBeat(ok) ==
    /\ enricher.pc = "rewriting"
    /\ enricher' = [enricher EXCEPT
                        !.pc = "reclassifying",
                        !.rewrite_calls = @ + 1,
                        !.enriched = IF ok THEN enricher.rewrite_calls + 1
                                     ELSE enricher.current.version]
    /\ UNCHANGED <<pc, nodes, stats, graph_state, current_node, executions, cancelled, stream_vars,
                   task_vars, unit_vars>>

\* the re-classification returns: break on a small improvement, else the
\* rewrite becomes the current beat; break when it meets the threshold,
\* else back to the head of the loop
Reclassify(resp) ==
    /\ enricher.pc = "reclassifying"
    /\ LET q == ClassifyEmotion(resp)
           improvement == q - enricher.current.quality
           e == [enricher EXCEPT !.classified = Append(@, Version(enricher.enriched, q)),
                                 !.classify_calls = @ + 1]
           adopted == [e EXCEPT !.current = Version(enricher.enriched, q)]
       IN  enricher' =
               IF ImprovementTooSmall(improvement, e.min_improvement)
               THEN EnrichedBeatResult(e)
               ELSE IF MeetsThreshold(q, e.threshold)
               THEN EnrichedBeatResult(adopted)
               ELSE LoopHead(adopted)
    /\ UNCHANGED <<pc, nodes, stats, graph_state, current_node, executions, cancelled, stream_vars,
                   task_vars, unit_vars>>

EnrichNext ==
    \/ \E t \in ThresholdArguments, m \in {NotGiven} \cup 0..MaxIterations,
          i \in MinImprovements : AnalyzeAndEnrich(t, m, i)
    \/ \E resp \in ClassifierResponses : ClassifyInitial(resp)
    \/ \E ok \in BOOLEAN : EnrichBeat(ok)
    \/ \E resp \in ClassifierResponses : Reclassify(resp)

EnrichSpec == Init /\ [][EnrichNext]_vars


(***************************************************************************)
(* Two run() calls interleaved on one graph object                         *)
(***************************************************************************)
\* largest max_beats of the run() that is called first
FirstRunBeats == 2

\* largest max_beats of the run() that is called second
SecondRunBeats == 1

\* the largest max_beats the executing coroutine is called with
TaskBeats == IF task = 1 THEN FirstRunBeats ELSE SecondRunBeats

\* the locals with the beats kept on the graph object instead of in them
FrameWithoutBeats ==
    [pc |-> pc, context |-> context, ncp_state |-> ncp_state, beats |-> <<>>,
     current_beat_index |-> current_beat_index, enrichments_applied |-> enrichments_applied,
     node_results |-> node_results, next_node |-> next_node,
     should_continue |-> should_continue, current_node |-> current_node,
     executions |-> executions, cancelled |-> cancelled]

\* run(): the locals of the coroutine, `state = GraphState(...)` with its
\* fields and `current_node`, together with its position
Frame ==
    [pc |-> pc, context |-> context, ncp_state |-> ncp_state, beats |-> beats,
     current_beat_index |-> current_beat_index, enrichments_applied |-> enrichments_applied,
     node_results |-> node_results, next_node |-> next_node,
     should_continue |-> should_continue, current_node |-> current_node,
     executions |-> executions, cancelled |-> cancelled]

\* the nodes whose execute() awaits a collaborator: the generator in
\* BeatGenerationNode, the feedback loop's LLM calls in AnalysisNode (which
\* returns before any await when there is no beat)
AwaitsCollaborator ==
    /\ LoopRuns
    /\ \/ current_node = "generate_beat"
       \/ current_node = "analyze_beat" /\ beats # <<>>

\* the event loop leaves the executing coroutine at an await, or after it
\* finished, and continues (or starts) the other one with its own locals
Switch ==
    /\ AwaitsCollaborator \/ pc \in {"done", "raised"}
    /\ suspended.pc \notin {"done", "raised"}
    /\ task' = 3 - task
    /\ suspended' = Frame
    /\ pc' = suspended.pc
    /\ context' = suspended.context
    /\ ncp_state' = suspended.ncp_state
    /\ beats' = suspended.beats
    /\ current_beat_index' = suspended.current_beat_index
    /\ enrichments_applied' = suspended.enrichments_applied
    /\ node_results' = suspended.node_results
    /\ next_node' = suspended.next_node
    /\ should_continue' = suspended.should_continue
    /\ current_node' = suspended.current_node
    /\ executions' = suspended.executions
    /\ cancelled' = suspended.cancelled
    /\ UNCHANGED <<nodes, stats, stream_vars, enricher, unit_vars>>

TwoRunsNext ==
    \/ \E m \in 1..TaskBeats, s \in SuppliedStates : RunStart(m, "absent", s)
    \/ ExecNcpLoad
    \/ ExecGenerateBeat
    \/ ExecAnalyzeBeat
    \/ ExecShouldContinue
    \/ ExecOutput
    \/ Return
    \/ Switch

TwoRunsSpec == Init /\ [][TwoRunsNext]_vars

(***************************************************************************)
(* AnalyticalFeedbackLoop: register_flow and _remediate_gaps               *)
(***************************************************************************)
\* largest number of register_flow calls on one feedback loop
MaxRegistered == 2

\* the routes a host registers: each with a handler
CustomFlows ==
    {FlowRoute("pacing_fix", priority, {"pacing_issue"}, TRUE) : priority \in {0, 3, 6}}
        \cup {FlowRoute("tone_fix", priority, {"emotional_weak", "theme_missing"}, TRUE) :
                 priority \in {0, 3, 6}}

\* the types of the gaps _remediate_gaps is called with
RemediatedGapTypes == {"emotional_weak", "pacing_issue", "theme_missing"}

\* the gap lists _identify_gaps hands over: not empty, cut to max_gaps_per_beat
GapLists == UNION {[1..n -> RemediatedGapTypes] : n \in 1..MaxGapsPerBeat}

\* list.sort(key=lambda f: f.priority) and sorted(..., key=...): stable
RECURSIVE SortByPriority(_)
SortByPriority(routes) ==
    IF routes = <<>> THEN <<>>
    ELSE LET n      == Len(routes)
             sorted == SortByPriority(SubSeq(routes, 1, n - 1))
             k      == Cardinality({i \in 1..(n - 1) : sorted[i].priority <= routes[n].priority})
         IN  SubSeq(sorted, 1, k) \o <<routes[n]>> \o SubSeq(sorted, k + 1, n - 1)

\* register_flow without the sort
RegisteredUnsorted(routes, flow) == Append(routes, flow)

\* register_flow: self.flow_routes.append(flow); self.flow_routes.sort(...)
Registered(routes, flow) == SortByPriority(Append(routes, flow))

\* _find_flow_for_gap: the first route, in ascending priority, whose
\* gap_types contain the type; None when there is none
FindFlow(routes, gap_type) ==
    LET sorted  == SortByPriority(routes)
        matches == {i \in 1..Len(sorted) : gap_type \in sorted[i].gap_types}
    IN  IF matches = {} THEN NoFlowRoute
        ELSE sorted[CHOOSE i \in matches : \A j \in matches : i <= j]

\* _apply_enrichment leaving raw_text as it was
ApplyEnrichedContentKeepingText(beat, flow_id, content, improvement) ==
    ApplyEnrichment(beat, flow_id, improvement)

\* _apply_enrichment: a new beat with enriched_content as raw_text
ApplyEnrichedContent(beat, flow_id, content, improvement) ==
    [ApplyEnrichment(beat, flow_id, improvement) EXCEPT !.raw_text = content]

\* the loop of _remediate_gaps, with a gap that has no route ending it
AfterGapWithoutFlowBreaks(position, n) == n + 1

\* the loop of _remediate_gaps: `continue` goes to the next gap
AfterGapWithoutFlow(position, n) == position + 1

\* register_flow(flow)
RegisterFlow(flow) ==
    /\ feedback.pc = "idle"
    /\ Len(feedback.registered) < MaxRegistered
    /\ feedback' = [feedback EXCEPT !.flow_routes = Registered(@, flow),
                                    !.registered = Append(@, flow)]
    /\ UNCHANGED <<pc, nodes, stats, graph_state, current_node, executions, cancelled, stream_vars,
                   enricher, task_vars, tracker, generator, classifier, analyzer>>

\* _remediate_gaps(beat, gaps, ncp_state) is called
RemediateGapsCalled(gaps) ==
    /\ feedback.pc = "idle"
    /\ feedback' = [feedback EXCEPT !.pc = "remediating", !.gaps = gaps]
    /\ UNCHANGED <<pc, nodes, stats, graph_state, current_node, executions, cancelled, stream_vars,
                   enricher, task_vars, tracker, generator, classifier, analyzer>>

\* one iteration of `for gap in gaps`: the route is looked up and
\* _execute_enrichment_flow runs.  Only the emotional flow awaits the
\* enricher, which reports was_enriched with an improvement or raises; every
\* other flow_id returns None, a handler is not called
RemediateGap(was_enriched, delta, exc) ==
    /\ feedback.pc = "remediating"
    /\ feedback.position <= Len(feedback.gaps)
    /\ LET gap   == feedback.gaps[feedback.position]
           flow  == FindFlow(feedback.flow_routes, gap)
           enrichment == IF flow.flow_id = "emotional_enrichment" /\ exc = None /\ was_enriched
                         THEN Enrichment(flow.flow_id, "rewritten", delta, TRUE)
                         ELSE NoEnrichmentReturned
           entry == [gap |-> gap, position |-> feedback.position, flow |-> flow,
                     before |-> feedback.current_beat, enrichment |-> enrichment]
       IN  IF flow = NoFlowRoute
           THEN /\ was_enriched = FALSE /\ delta = 0 /\ exc = None
                /\ feedback' = [feedback EXCEPT
                      !.position = AfterGapWithoutFlow(@, Len(feedback.gaps)),
                      !.log = Append(@, entry @@ [outcome |-> "no_flow"])]
                /\ UNCHANGED stats
           ELSE IF flow.flow_id # "emotional_enrichment"
           THEN /\ was_enriched = FALSE /\ delta = 0 /\ exc = None
                /\ feedback' = [feedback EXCEPT
                      !.position = @ + 1,
                      !.log = Append(@, entry @@ [outcome |-> "nothing"])]
                /\ UNCHANGED stats
           ELSE IF exc # None
           THEN /\ was_enriched = FALSE /\ delta = 0
                /\ IF CaughtByExceptException(exc)
                   THEN feedback' = [feedback EXCEPT
                            !.position = @ + 1,
                            !.log = Append(@, entry @@ [outcome |-> "raised"])]
                   ELSE feedback' = [feedback EXCEPT !.pc = "raised"]
                /\ UNCHANGED stats
           ELSE IF FlowApplies(flow.flow_id, was_enriched)
           THEN /\ feedback' = [feedback EXCEPT
                      !.position = @ + 1,
                      !.current_beat = ApplyEnrichedContent(@, enrichment.flow_id,
                                           enrichment.enriched_content, enrichment.improvement_score),
                      !.log = Append(@, entry @@ [outcome |-> "applied"])]
                /\ stats' = [stats EXCEPT !.gaps_remediated = @ + 1]
           ELSE /\ delta = 0
                /\ feedback' = [feedback EXCEPT
                      !.position = @ + 1,
                      !.log = Append(@, entry @@ [outcome |-> "nothing"])]
                /\ UNCHANGED stats
    /\ UNCHANGED <<pc, nodes, graph_state, current_node, executions, cancelled, stream_vars,
                   enricher, task_vars, tracker, generator, classifier, analyzer>>

\* _remediate_gaps: return current_beat
RemediateGapsReturns ==
    /\ feedback.pc = "remediating"
    /\ feedback.position > Len(feedback.gaps)
    /\ feedback' = [feedback EXCEPT !.pc = "returned"]
    /\ UNCHANGED <<pc, nodes, stats, graph_state, current_node, executions, cancelled, stream_vars,
                   enricher, task_vars, tracker, generator, classifier, analyzer>>

FlowNext ==
    \/ \E flow \in CustomFlows : RegisterFlow(flow)
    \/ \E gaps \in GapLists : RemediateGapsCalled(gaps)
    \/ \E was_enriched \in BOOLEAN, delta \in DeltaLevels, exc \in {None} \cup Raisable :
          RemediateGap(was_enriched, delta, exc)
    \/ RemediateGapsReturns

FlowSpec == Init /\ [][FlowNext]_vars

(***************************************************************************)
(* CharacterArcTracker and CharacterArcState.add_arc_point, one player_id  *)
(***************************************************************************)
\* largest number of arc points of the character
MaxArcPoints == 11

\* the arc points a caller adds
AddedArcPoints == {ArcPoint("ascending", 100), ArcPoint("descending", 30)}

Min(a, b) == IF a <= b THEN a ELSE b

Max(a, b) == IF a >= b THEN a ELSE b

\* add_arc_point without min and max
ArcPositionUnclamped(position, point) ==
    CASE point.arc_direction = "ascending"  -> position + point.impact_magnitude
      [] point.arc_direction = "descending" -> position - point.impact_magnitude
      [] OTHER -> position

\* add_arc_point: the new arc_position
ArcPosition(position, point) ==
    CASE point.arc_direction = "ascending"  -> Min(1000, position + point.impact_magnitude)
      [] point.arc_direction = "descending" -> Max(0, position - point.impact_magnitude)
      [] OTHER -> position

\* CharacterArcState.add_arc_point
WithArcPoint(state, point) ==
    [state EXCEPT !.arc_points = Append(@, point),
                  !.arc_position = ArcPosition(@, point)]

\* initialize_character: self.character_states[player_id] = CharacterArcState(...)
InitializeCharacter ==
    /\ tracker' = CharacterArcState
    /\ UNCHANGED <<pc, nodes, stats, graph_state, current_node, executions, cancelled, stream_vars,
                   enricher, task_vars, feedback, generator, classifier, analyzer>>

\* add_arc_point(arc_point) on the state of the character
AddArcPoint(point) ==
    /\ tracker.tracked
    /\ Len(tracker.arc_points) < MaxArcPoints
    /\ tracker' = WithArcPoint(tracker, point)
    /\ UNCHANGED <<pc, nodes, stats, graph_state, current_node, executions, cancelled, stream_vars,
                   enricher, task_vars, feedback, generator, classifier, analyzer>>

\* record_beat_impact(beat, player_id): None without a state for the
\* player; else an ArcPoint of direction 'static' and impact 0.3 is added
RecordBeatImpact ==
    /\ Len(tracker.arc_points) < MaxArcPoints
    /\ tracker' = IF tracker.tracked THEN WithArcPoint(tracker, ArcPoint("static", 30))
                  ELSE tracker
    /\ UNCHANGED <<pc, nodes, stats, graph_state, current_node, executions, cancelled, stream_vars,
                   enricher, task_vars, feedback, generator, classifier, analyzer>>

ArcNext ==
    \/ InitializeCharacter
    \/ \E point \in AddedArcPoints : AddArcPoint(point)
    \/ RecordBeatImpact

ArcSpec == Init /\ [][ArcNext]_vars

(***************************************************************************)
(* NCPAwareStoryGenerator.generate_beat_with_ncp                           *)
(***************************************************************************)
(* Python string operations, on the strings of the model                   *)
(***************************************************************************)
\* str.lower()
Lower(text) ==
    CASE text = "Loss of Innocence" -> "loss of innocence"
      [] text = "The rain kept falling." -> "the rain kept falling."
      [] text = "A Loss, then innocence." -> "a loss, then innocence."
      [] text = "The loss of innocence" -> "the loss of innocence"
      [] text = "Hopeful grief" -> "hopeful grief"
      [] OTHER -> text

\* str.split()
Split(text) ==
    CASE text = "loss of innocence" -> <<"loss", "of", "innocence">>
      [] OTHER -> <<text>>

\* `w in text`: w is a substring of text ("of" is one of "profound"); the
\* other strings of the model contain, of the words looked up, themselves
IsSubstring(w, text) ==
    CASE text = "the rain kept falling." -> FALSE
      [] text = "a loss, then innocence." -> w \in {"loss", "innocence"}
      [] text = "a profound loss" -> w \in {"loss", "of"}
      [] text = "the loss of innocence" -> w \in {"loss", "of", "innocence"}
      [] text = "hopeful grief" -> w \in {"hope", "grief"}
      [] OTHER -> w = text

(***************************************************************************)
\* largest number of generate_beat_with_ncp calls on one generator
MaxGenerated == 4

\* the tags of the response format
BeatTags == {"dialogue", "action", "internal", "emotional_tone", "theme_resonance"}

\* a response in the format of the prompt
TaggedResponse(tone, dialogue) ==
    [raw_text |-> "tagged", 
     tags |-> [dialogue |-> dialogue, action |-> "walks", internal |-> "thinks",
               emotional_tone |-> tone, theme_resonance |-> "echo"]]

\* a response without any of the tags
UntaggedResponse(text) == [raw_text |-> text, tags |-> [t \in BeatTags |-> None]]

\* what llm_provider.generate returns
LlmResponses ==
    {TaggedResponse("hope", "speech"), TaggedResponse("fear", "none"),
     TaggedResponse("revelation", "speech"), TaggedResponse("Hopeful grief", "speech"),
     UntaggedResponse("prose")}

\* llm_provider.generate returns a response
Returns(response) == [raised |-> FALSE, response |-> response]

\* llm_provider.generate raises
LlmFailure == [raised |-> TRUE, response |-> UntaggedResponse(None)]

\* _generate_llm_response with a placeholder text for the failed call
GenerateLlmResponseWithPlaceholder(outcome) ==
    IF outcome.raised THEN UntaggedResponse("generation failed") ELSE outcome.response

\* _generate_llm_response: the response, or "" when the provider raised
GenerateLlmResponse(outcome) ==
    IF outcome.raised THEN UntaggedResponse("") ELSE outcome.response

\* _extract_tag: the content of the tag, None without a match
ExtractTag(response, tag) == response.tags[tag]

\* _parse_beat: "none" as dialogue or internal becomes None
NoneIfNone(content) == IF content = "none" THEN None ELSE content

\* _parse_beat
ParseBeat(response, character_id, current_index) ==
    [beat_index |-> current_index + 1,
     raw_text |-> response.raw_text,
     character_id |-> character_id,
     dialogue |-> NoneIfNone(ExtractTag(response, "dialogue")),
     action |-> ExtractTag(response, "action"),
     internal |-> NoneIfNone(ExtractTag(response, "internal")),
     emotional_tone |-> ExtractTag(response, "emotional_tone"),
     theme_resonance |-> ExtractTag(response, "theme_resonance")]

\* the keyword sets of _determine_arc_direction
AscendingEmotions == {"hope", "joy", "triumph", "love", "confidence"}

DescendingEmotions == {"despair", "fear", "grief", "shame", "defeat"}

CrisisEmotions == {"crisis", "confrontation", "turning", "revelation"}

\* _determine_arc_direction with the descending keywords looked up first
DetermineArcDirectionDescendingFirst(tone) ==
    LET emotion == Lower(IF tone = None THEN "" ELSE tone)
    IN  IF \E e \in DescendingEmotions : IsSubstring(e, emotion) THEN "descending"
        ELSE IF \E e \in AscendingEmotions : IsSubstring(e, emotion) THEN "ascending"
        ELSE IF \E e \in CrisisEmotions : IsSubstring(e, emotion) THEN "crisis"
        ELSE "static"

\* _determine_arc_direction: the first keyword set with a keyword that the
\* lowered tone contains; "" for a missing tone
DetermineArcDirection(tone) ==
    LET emotion == Lower(IF tone = None THEN "" ELSE tone)
    IN  IF \E e \in AscendingEmotions : IsSubstring(e, emotion) THEN "ascending"
        ELSE IF \E e \in DescendingEmotions : IsSubstring(e, emotion) THEN "descending"
        ELSE IF \E e \in CrisisEmotions : IsSubstring(e, emotion) THEN "crisis"
        ELSE "static"

\* NCPState.add_beat with the index left where it was
AddBeatKeepingIndex(g, beat) == [g EXCEPT !.beats = Append(@, beat)]

\* NCPState.add_beat: append, current_beat_index = len(self.beats)
AddBeat(g, beat) ==
    [g EXCEPT !.beats = Append(@, beat), !.current_beat_index = Len(g.beats) + 1]

\* the character the generator knows, and one it does not know
CharacterIds == {"hero", "stranger"}

\* initialize_from_story_elements: a CharacterArcState for the character
InitializeFromStoryElements ==
    /\ generator' = [generator EXCEPT !.character = CharacterArcState]
    /\ UNCHANGED <<pc, nodes, stats, graph_state, current_node, executions, cancelled, stream_vars,
                   enricher, task_vars, feedback, tracker, classifier, analyzer>>

\* generate_beat_with_ncp(context, character_id): the character state is
\* looked up, the LLM called once, the response parsed, an ArcPoint of
\* impact 0.3 added for a known character, and the beat added to the state
GenerateBeatWithNcp(character_id, outcome) ==
    /\ generator.llm_calls < MaxGenerated
    /\ LET known    == character_id = "hero" /\ generator.character.tracked
           response == GenerateLlmResponse(outcome)
           beat     == ParseBeat(response, character_id, generator.current_beat_index)
           point    == ArcPoint(DetermineArcDirection(beat.emotional_tone), 30)
           counted  == [generator EXCEPT
                           !.llm_calls = @ + 1,
                           !.character = IF known THEN WithArcPoint(@, point) ELSE @,
                           !.last = [llm |-> IF outcome.raised THEN "raised" ELSE "returned",
                                     beat |-> beat]]
       IN  generator' = AddBeat(counted, beat)
    /\ UNCHANGED <<pc, nodes, stats, graph_state, current_node, executions, cancelled, stream_vars,
                   enricher, task_vars, feedback, tracker, classifier, analyzer>>

GenNext ==
    \/ InitializeFromStoryElements
    \/ \E c \in CharacterIds, outcome \in {Returns(r) : r \in LlmResponses} \cup {LlmFailure} :
          GenerateBeatWithNcp(c, outcome)

GenSpec == Init /\ [][GenNext]_vars

(***************************************************************************)
(* EmotionalBeatEnricher.classify_emotion                                  *)
(*                                                                         *)
(* The sub-scores are in hundredths and quality_score, a sum of products   *)
(* of a weight and a sub-score that are both in hundredths, is in ten      *)
(* thousandths (0.445 is 4450).                                            *)
(***************************************************************************)
\* the response has no line with this key
MissingLine == "<missing>"

\* the text after the colon of a score line: numbers, and words that
\* float() rejects
ScoreTexts == {"0.0", "0.4", "0.9", "1.0", "high"}

\* the keys of the score lines that _parse_classification_response reads
ScoreKeys == {"CONFIDENCE", "RESONANCE_SCORE", "SPECIFICITY_SCORE", "AUTHENTICITY_SCORE"}

\* the responses of the LLM to a classification prompt: for each score key
\* the text of its line, or no such line
ClassificationResponses == [ScoreKeys -> ScoreTexts \cup {MissingLine}]

\* await self._async_generate(prompt) returns a response or raises
ClassifierOutcomes ==
    {[raised |-> FALSE, response |-> r] : r \in ClassificationResponses}
    \cup {[raised |-> TRUE, response |-> None]}

\* _parse_float: float(value), or the default when float() raises ValueError
ParseFloat(value, default) ==
    CASE value = "0.0" -> 0
      [] value = "0.4" -> 40
      [] value = "0.9" -> 90
      [] value = "1.0" -> 100
      [] OTHER -> default

\* one branch of the elif chain of _parse_classification_response: a line
\* with the key assigns the field, without such a line the field keeps the
\* value of the constructor
ParsedField(response, key, constructed) ==
    IF response[key] = MissingLine THEN constructed ELSE ParseFloat(response[key], 50)

\* _parse_classification_response
ParseClassificationResponse(response) ==
    LET analysis == EmotionalAnalysis("neutral", 0)
    IN [analysis EXCEPT
          !.confidence = ParsedField(response, "CONFIDENCE", @),
          !.resonance_score = ParsedField(response, "RESONANCE_SCORE", @),
          !.specificity_score = ParsedField(response, "SPECIFICITY_SCORE", @),
          !.authenticity_score = ParsedField(response, "AUTHENTICITY_SCORE", @)]

\* the four sub-scores weighted equally
CalculateQualityEqualWeights(analysis) ==
    [analysis EXCEPT !.quality_score =
        analysis.confidence * 25 + analysis.resonance_score * 25
        + analysis.specificity_score * 25 + analysis.authenticity_score * 25]

\* EmotionalAnalysis.calculate_quality
CalculateQuality(analysis) ==
    [analysis EXCEPT !.quality_score =
        analysis.confidence * 20 + analysis.resonance_score * 35
        + analysis.specificity_score * 25 + analysis.authenticity_score * 20]

\* classify_emotion(beat): the LLM call returns a response, which is
\* parsed, or raises, which is caught; calculate_quality runs in both cases
ClassifyEmotionCalled(outcome) ==
    /\ ~classifier.called
    /\ LET analysis == IF outcome.raised THEN EmotionalAnalysis("unclassified", 0)
                       ELSE ParseClassificationResponse(outcome.response)
       IN classifier' = [called |-> TRUE, outcome |-> outcome,
                         analysis |-> CalculateQuality(analysis)]
    /\ UNCHANGED <<pc, nodes, stats, graph_state, current_node, executions, cancelled, stream_vars,
                   enricher, task_vars, feedback, tracker, generator, analyzer>>

ClassifyNext == \E outcome \in ClassifierOutcomes : ClassifyEmotionCalled(outcome)

ClassifySpec == Init /\ [][ClassifyNext]_vars

(***************************************************************************)
(* AnalyticalFeedbackLoop: _analyze_theme, _identify_gaps and              *)
(* _determine_severity                                                     *)
(*                                                                         *)
(* Scores in this section are in three-hundredths (0.6 is 180 and 2/3 is   *)
(* 200), so that the presence score of a theme of three words is exact.    *)
(***************************************************************************)
\* largest max_gaps_per_beat a host configures
MaxGapsCap == 3

\* 1.0 in three-hundredths
One == 300

\* a score given in hundredths
Hundredths(c) == 3 * c

\* the gap_threshold settings: the default 0.6, and 0.9
GapThresholds == {Hundredths(GapThreshold), Hundredths(90)}

\* the primary scores of an analysis, around the limits 0.3, 0.5 and 0.6
ScoreLevels == {Hundredths(c) : c \in {0, 29, 30, 49, 50, 59, 60, 100}}

\* ncp_state.active_theme of the analysed story
ActiveTheme == "Loss of Innocence"

\* raw_text of the analysed beats
BeatTexts == {"The rain kept falling.", "A Loss, then innocence.", "a profound loss",
              "The loss of innocence"}

\* _analyze_theme: presence_score, the fraction of the theme words found
AnalyzeTheme(raw_text, theme) ==
    LET theme_words == Split(Lower(theme))
        text_lower  == Lower(raw_text)
        found       == Cardinality({i \in 1..Len(theme_words) :
                                       IsSubstring(theme_words[i], text_lower)})
    IN  Min((found * One) \div Len(theme_words), One)

\* _analyze_character: consistency_score = 1.0
AnalyzeCharacter == One

\* a Gap of _identify_gaps
Gap(gap_type, dimension, score, severity, beat_id) ==
    [gap_type |-> gap_type, dimension |-> dimension, score |-> score,
     severity |-> severity, beat_id |-> beat_id]

\* _determine_severity with the limits included in the lower bucket
DetermineSeverityInclusive(score) ==
    IF score <= Hundredths(30) THEN "critical"
    ELSE IF score <= Hundredths(50) THEN "major"
    ELSE "minor"

\* _determine_severity
DetermineSeverity(score) ==
    IF score < Hundredths(30) THEN "critical"
    ELSE IF score < Hundredths(50) THEN "major"
    ELSE "minor"

\* the threshold test with `<=`
AtOrBelowThreshold(score, gap_threshold) == score <= gap_threshold

\* _identify_gaps: score < self.gap_threshold
BelowThreshold(score, gap_threshold) == score < gap_threshold

\* the gaps in the order they were appended
Unsorted(gaps) == gaps

\* sorted(gaps, key=lambda g: g.score): ascending and stable
RECURSIVE SortedByScore(_)
SortedByScore(gaps) ==
    IF gaps = <<>> THEN <<>>
    ELSE LET n      == Len(gaps)
             sorted == SortedByScore(SubSeq(gaps, 1, n - 1))
             k      == Cardinality({i \in 1..(n - 1) : sorted[i].score <= gaps[n].score})
         IN  SubSeq(sorted, 1, k) \o <<gaps[n]>> \o SubSeq(sorted, k + 1, n - 1)

\* _identify_gaps(analysis) of a loop with these settings
IdentifyGapsIn(analysis, gap_threshold, max_gaps_per_beat) ==
    LET Found(score, gap_type, dimension) ==
            IF score # NotGiven /\ BelowThreshold(score, gap_threshold)
            THEN <<Gap(gap_type, dimension, score, DetermineSeverity(score), analysis.beat_id)>>
            ELSE <<>>
        gaps == Found(analysis.emotional, "emotional_weak", "emotional")
                \o Found(analysis.character, "character_inconsistent", "character")
                \o Found(analysis.thematic, "theme_missing", "thematic")
        sorted == SortedByScore(gaps)
    IN  SubSeq(sorted, 1, Min(Len(sorted), max_gaps_per_beat))

\* analyses a caller builds and hands to _identify_gaps: every dimension
\* with any score, the character and the thematic one possibly None
BuiltAnalyses ==
    {MultiDimensionalAnalysis("beat_7", e, c, t) :
        e \in ScoreLevels, c \in ScoreLevels \cup {NotGiven}, t \in ScoreLevels \cup {NotGiven}}

\* AnalyticalFeedbackLoop(enricher, llm, config)
FeedbackLoopConfigured(gap_threshold, max_gaps_per_beat) ==
    /\ analyzer.pc = "new"
    /\ analyzer' = [analyzer EXCEPT !.pc = "configured", !.gap_threshold = gap_threshold,
                                    !.max_gaps_per_beat = max_gaps_per_beat]
    /\ UNCHANGED <<pc, nodes, stats, graph_state, current_node, executions, cancelled, stream_vars,
                   enricher, task_vars, feedback, tracker, generator, classifier>>

\* _analyze_beat(beat, ncp_state): the classifier reports quality_score
\* `emotional`, the beat's character is or is not in character_states, the
\* story has or has not an active theme
AnalyzeBeat(raw_text, emotional, character_known, theme) ==
    /\ analyzer.pc = "configured"
    /\ analyzer' = [analyzer EXCEPT
          !.pc = "analysed",
          !.text = raw_text,
          !.analysis = MultiDimensionalAnalysis("beat_7", emotional,
                           IF character_known THEN AnalyzeCharacter ELSE NotGiven,
                           IF theme # None THEN AnalyzeTheme(raw_text, theme) ELSE NotGiven)]
    /\ UNCHANGED <<pc, nodes, stats, graph_state, current_node, executions, cancelled, stream_vars,
                   enricher, task_vars, feedback, tracker, generator, classifier>>

\* _identify_gaps(analysis) on an analysis a caller built
AnalysisBuilt(analysis) ==
    /\ analyzer.pc = "configured"
    /\ analyzer' = [analyzer EXCEPT !.pc = "analysed", !.analysis = analysis]
    /\ UNCHANGED <<pc, nodes, stats, graph_state, current_node, executions, cancelled, stream_vars,
                   enricher, task_vars, feedback, tracker, generator, classifier>>

\* gaps = self._identify_gaps(analysis)
IdentifyGapsCalled ==
    /\ analyzer.pc = "analysed"
    /\ analyzer' = [analyzer EXCEPT
          !.pc = "identified",
          !.gaps = IdentifyGapsIn(analyzer.analysis, analyzer.gap_threshold,
                                  analyzer.max_gaps_per_beat)]
    /\ UNCHANGED <<pc, nodes, stats, graph_state, current_node, executions, cancelled, stream_vars,
                   enricher, task_vars, feedback, tracker, generator, classifier>>

GapNext ==
    \/ \E gap_threshold \in GapThresholds, max_gaps_per_beat \in 0..MaxGapsCap :
          FeedbackLoopConfigured(gap_threshold, max_gaps_per_beat)
    \/ \E raw_text \in BeatTexts, emotional \in ScoreLevels, character_known \in BOOLEAN,
          theme \in {None, ActiveTheme} :
          AnalyzeBeat(raw_text, emotional, character_known, theme)
    \/ \E analysis \in BuiltAnalyses : AnalysisBuilt(analysis)
    \/ IdentifyGapsCalled

GapSpec == Init /\ [][GapNext]_vars

(***************************************************************************)
(* Properties of the graph run                                             *)
(***************************************************************************)
AllDefault == \A n \in DOMAIN nodes : nodes[n] = "default"

Terminated == pc \in {"done", "raised"}

\* C1 (as stated): every run performs at most max_beats*(1+3) node
\* executions, for every max_beats >= 0.
C1_ExecutionsWithinMaxBeatsTimesFour ==
    pc # "idle" => executions <= context.max_beats * (1 + 3)

\* C1 (amended): every run performs at most max(max_beats, 1)*(1+3) node
\* executions, and it terminates: as long as run() has neither returned nor
\* raised, a step of it is enabled, and every such step either executes a
\* node (counted, hence bounded) or ends the run.
C1_BoundedRun ==
    LET m == IF context.max_beats < 1 THEN 1 ELSE context.max_beats
    IN  /\ pc # "idle" => executions <= m * (1 + 3)
        /\ Terminated \/ ENABLED Next

\* a run with max_beats = 1 that took the full 4 executions
C1_Witness ==
    pc = "done" /\ context.max_beats = 1 /\ executions = 4 /\ AllDefault

C3_NcpLoadCompletesOnFreshState ==
    [][(Selected("ncp_load") /\ ~ncp_state.exists) =>
          /\ Last(node_results').node_id = "ncp_load"
          /\ Last(node_results').status = "COMPLETED"
          /\ ncp_state'.exists
          /\ ncp_state'.active_perspective = context.perspective
          /\ ncp_state'.active_theme = context.theme
          /\ (context.ncp_data = "dict" => "ncp_data" \in ncp_state'.ncp_metadata)
          /\ next_node' = "generate_beat"]_vars

\* C4: in every state of a run the number of beats equals
\* current_beat_index.
C4_BeatsMatchIndex == Len(beats) = current_beat_index

\* a run with a regenerated beat, an enriched (replaced) beat and a failed
\* node execution
C4_Witness ==
    /\ Len(beats) >= 2
    /\ beats[1].quality_score < RegenQuality
    /\ \E i \in 1..Len(beats) : beats[i].enrichments_applied # <<>>
    /\ node_results # <<>> /\ Last(node_results).status = "FAILED"

C7_GenerateFailureStopsRun ==
    [][/\ Selected("generate_beat") =>
             \/ pc' = "raised"
             \/ /\ Last(node_results').status = "COMPLETED"
                /\ Len(beats') = Len(beats) + 1
             \/ /\ node_results' = Append(node_results,
                                          NodeResult("generate_beat", "FAILED", Last(node_results').error))
                /\ Last(node_results').error # None
                /\ ~should_continue'
                /\ beats' = beats
                /\ current_beat_index' = current_beat_index
                /\ current_beat_index' = Len(beats')
                /\ pc' = "running"
       /\ (/\ pc = "running"
           /\ node_results # <<>>
           /\ Last(node_results).node_id = "generate_beat"
           /\ Last(node_results).status = "FAILED") =>
             /\ pc' = "done"
             /\ UNCHANGED <<graph_state, executions>>]_vars

\* run() returned after the generator failed with beats already produced
C7_Witness ==
    /\ pc = "done"
    /\ Last(node_results).node_id = "generate_beat"
    /\ Last(node_results).status = "FAILED"
    /\ Len(beats) >= 2

\* C8: an analyze_beat execution on a beat either completes, or lets a
\* cancellation through, or (the analysis raised) appends a FAILED result,
\* leaves every beat and current_beat_index as they were and does not
\* change should_continue.
C8_AnalysisFailureKeepsBeats ==
    [][(Selected("analyze_beat") /\ beats # <<>>) =>
          \/ pc' = "raised"
          \/ Last(node_results').status = "COMPLETED"
          \/ /\ node_results' = Append(node_results,
                                       NodeResult("analyze_beat", "FAILED", Last(node_results').error))
             /\ Last(node_results').error # None
             /\ beats' = beats
             /\ current_beat_index' = current_beat_index
             /\ should_continue' = should_continue
             /\ pc' = "running"]_vars

\* the state right after a failed analysis of the second beat
C8_Witness ==
    /\ node_results # <<>>
    /\ Last(node_results).node_id = "analyze_beat"
    /\ Last(node_results).status = "FAILED"
    /\ should_continue
    /\ Len(beats) >= 2

C10_UnknownNodeReturnsLastState ==
    [][/\ (LoopRuns /\ current_node \notin DOMAIN nodes) =>
             /\ pc' = "done"
             /\ UNCHANGED <<graph_state, executions>>
       /\ pc = "done" => UNCHANGED vars]_vars

\* run() returned at the unregistered id a custom node named, with beats
\* in the state
C10_Witness ==
    /\ pc = "done"
    /\ should_continue
    /\ current_node = "publish"
    /\ Len(beats) >= 1
    /\ Last(node_results).node_id = "output"

\* C11: node_results is an append-only log with one entry per node
\* execution: entries are never removed, reordered or rewritten, and every
\* execution of a default node that returns appends exactly one NodeResult
\* carrying the id of that node.
C11_OneResultPerExecution ==
    [][/\ Len(node_results') >= Len(node_results)
       /\ SubSeq(node_results', 1, Len(node_results)) = node_results
       /\ ((\E id \in DefaultNodes : Selected(id)) /\ executions' = executions + 1
              /\ pc' # "raised") =>
             /\ Len(node_results') = Len(node_results) + 1
             /\ Last(node_results').node_id = current_node]_vars

\* C12: stream() yields every beat appended to the beats exactly once, in
\* list order: the beat is yielded right after the node execution that
\* appended it, no node executes and the stream does not end while an
\* appended beat is still to be yielded, and an analyze_beat execution (which
\* replaces the last beat) causes no yield.
C12_StreamYieldsEachBeatOnce ==
    /\ [](mode = "stream" =>
            /\ last_beat_count = Len(yielded)
            /\ Len(yielded) <= Len(beats)
            /\ \A i \in 1..Len(yielded) : yielded[i].beat_id = beats[i].beat_id
            /\ \A i, j \in 1..Len(yielded) : yielded[i].beat_id = yielded[j].beat_id => i = j
            /\ (pc # "yielding" => Len(yielded) = Len(beats)))
    /\ [][/\ Len(beats') > Len(beats) => pc' = "yielding"
          /\ pc = "yielding" => /\ yielded' = Append(yielded, beats[Len(yielded) + 1])
                                /\ UNCHANGED <<graph_state, executions>>
          /\ yielded' # yielded => pc = "yielding"
          /\ Selected("analyze_beat") => yielded' = yielded /\ pc' # "yielding"]_vars

\* the stream ended after two beats, the first of which was replaced by
\* its enriched version after it had been yielded
C12_Witness ==
    /\ mode = "stream"
    /\ pc = "done"
    /\ Len(yielded) = 2
    /\ Len(beats) = 2
    /\ beats[1].enrichments_applied # <<>>
    /\ yielded[1].enrichments_applied = <<>>

\* C20: every beat of the GraphState has quality_score in [0,1] in every
\* state of a run, beats with applied remediation enrichments included.
C20_QualityWithinUnitInterval ==
    \A i \in 1..Len(beats) : beats[i].quality_score \in 0..100

\* two analysed beats, the first with an enrichment applied and scored
C20_Witness ==
    /\ Len(beats) >= 2
    /\ beats[1].enrichments_applied # <<>>
    /\ beats[1].quality_score > 0
    /\ beats[2].quality_score > 0

\* the step is an execution of the default node `id` that appended its
\* NodeResult with this status
DefaultNodeExecuted(id, status) ==
    /\ Selected(id) /\ nodes[id] = "default"
    /\ Len(node_results') = Len(node_results) + 1
    /\ Last(node_results') = NodeResult(id, status, None)

\* C29: after a successful analyze_beat, next_node is output if
\* current_beat_index >= max_beats; otherwise generate_beat if the analysed
\* beat's quality_score < 0.5 and the enrichments_applied counter, as
\* updated by this analysis, is < 3; otherwise should_continue.
C29_RoutingAfterAnalysis ==
    [][DefaultNodeExecuted("analyze_beat", "COMPLETED") =>
          next_node' = IF current_beat_index' >= context'.max_beats THEN "output"
                       ELSE IF Last(beats').quality_score < 50 /\ enrichments_applied' < 3
                            THEN "generate_beat"
                       ELSE "should_continue"]_vars

\* a successful analysis at the last beat of the run that left a beat below
\* 0.5 with the counter below 3: the max_beats test decided
C29_Witness ==
    /\ node_results # <<>> /\ Last(node_results) = NodeResult("analyze_beat", "COMPLETED", None)
    /\ nodes["analyze_beat"] = "default"
    /\ current_beat_index >= context.max_beats
    /\ Last(beats).quality_score < 50 /\ enrichments_applied < 3
    /\ next_node = "output"
    /\ \E i \in 1..Len(node_results) - 1 :
          /\ node_results[i].node_id = "analyze_beat"
          /\ node_results[i + 1].node_id = "generate_beat"

\* C30: should_continue routes to output exactly when current_beat_index >=
\* max_beats, or the last beat's emotional_tone is one of resolution,
\* conclusion, ending and its quality_score >= min_quality; in every other
\* case it routes to generate_beat.  Once it has chosen output no further
\* beat is generated.
C30_ContinuationCheck ==
    [][/\ DefaultNodeExecuted("should_continue", "COMPLETED") =>
            LET stop == \/ current_beat_index >= context.max_beats
                        \/ /\ beats # <<>>
                           /\ Last(beats).emotional_tone \in {"resolution", "conclusion", "ending"}
                           /\ Last(beats).quality_score >= context.min_quality
            IN  next_node' = IF stop THEN "output" ELSE "generate_beat"
       /\ (/\ node_results # <<>> /\ Last(node_results).node_id = "should_continue"
           /\ nodes["should_continue"] = "default"
           /\ next_node = "output") => beats' = beats]_vars

\* a run with the largest max_beats whose first beat has tone 'resolution'
\* and quality 0.80: it has returned after should_continue with one beat
C30_Witness ==
    /\ pc = "done"
    /\ context.max_beats = MaxBeats
    /\ Len(beats) = 1
    /\ beats[1].emotional_tone = "resolution" /\ beats[1].quality_score = 80
    /\ Last(node_results).node_id = "should_continue"
    /\ nodes["should_continue"] = "default"

(***************************************************************************)
(* Properties of analyze_and_enrich                                        *)
(***************************************************************************)
\* C14: when the initial classification has quality_score >= threshold (the
\* threshold argument, or the configured one when the argument is left
\* out), the call returns was_enriched false, iterations 0 and the original
\* beat as final beat, after exactly one LLM call, the classification, and
\* no rewrite.
C14_ThresholdShortCircuit ==
    LET threshold == IF enricher.target_threshold = NotGiven THEN QualityThresholdGood
                     ELSE enricher.target_threshold
    IN  (enricher.pc \notin {"idle", "classifying"}
         /\ enricher.initial.quality >= threshold) =>
            /\ enricher.pc = "returned"
            /\ enricher.result.was_enriched = FALSE
            /\ enricher.result.iterations = 0
            /\ enricher.result.final_beat = 0
            /\ enricher.result.final_quality = enricher.initial.quality
            /\ enricher.classify_calls = 1
            /\ enricher.rewrite_calls = 0

\* C15: the loop stops at the first iteration whose re-classified quality
\* reaches the threshold, reports that iteration number, returns the beat
\* rewritten in that iteration with that quality as final, and
\* improvement_delta is the final quality minus the initial quality.
C15_StopsAtFirstIterationReachingThreshold ==
    [][(enricher.pc = "reclassifying"
        /\ Last(enricher'.classified).quality >= enricher.threshold) =>
          /\ enricher'.pc = "returned"
          /\ enricher'.result.iterations = enricher.iteration
          /\ enricher'.result.final_beat = enricher.enriched
          /\ enricher'.result.final_quality = Last(enricher'.classified).quality
          /\ enricher'.result.improvement_delta =
                 Last(enricher'.classified).quality - enricher.initial.quality]_vars

\* C16: with max_iterations = N >= 1, an initial quality below the
\* threshold and every rewrite improving by at least min_improvement while
\* staying below the threshold, the call performs exactly N
\* rewrite-and-reclassify rounds.
C16_ExactlyMaxIterationsRounds ==
    LET c == enricher.classified
        everyRewriteImproves ==
            \A i \in 2..Len(c) : /\ c[i].quality - c[i - 1].quality >= enricher.min_improvement
                                  /\ c[i].quality < enricher.threshold
    IN  (/\ enricher.pc = "returned"
         /\ enricher.max_iterations >= 1
         /\ enricher.initial.quality < enricher.threshold
         /\ everyRewriteImproves) =>
            /\ enricher.rewrite_calls = enricher.max_iterations
            /\ enricher.classify_calls = enricher.max_iterations + 1

\* C17: for every behaviour of the classifier and the rewriter, LLM
\* failures included, the call terminates after at most max_iterations
\* rewrite calls and max_iterations + 1 classification calls, and the
\* iterations it reports lie in 0..max_iterations (max_iterations being the
\* argument, or the configured value when the argument is left out).
C17_BoundedByMaxIterations ==
    LET N == IF enricher.max_iterations = NotGiven THEN EnrichmentMaxIterations
             ELSE enricher.max_iterations
    IN  enricher.pc # "idle" =>
            /\ enricher.rewrite_calls <= N
            /\ enricher.classify_calls <= N + 1
            /\ enricher.pc = "returned" =>
                   (0 <= enricher.result.iterations /\ enricher.result.iterations <= N)
            /\ enricher.pc = "returned" \/ ENABLED EnrichNext

\* C18: the call returns the best-scoring version: the final quality is
\* the maximum of the qualities of all versions classified during the
\* call, and the final beat is the version that earned it.
C18_ReturnsBestScoringVersion ==
    enricher.pc = "returned" =>
        /\ \A i \in 1..Len(enricher.classified) :
               enricher.classified[i].quality <= enricher.result.final_quality
        /\ \E i \in 1..Len(enricher.classified) :
               enricher.classified[i] =
                   Version(enricher.result.final_beat, enricher.result.final_quality)

\* C19: for every sequence of classifier results and min_improvement >= 0
\* the final quality is not below the initial quality (improvement_delta
\* >= 0), and a rewrite that scores lower than the current version never
\* becomes the current (and so the final) version.
C19_FinalNotBelowInitial ==
    /\ [](/\ enricher.current.quality >= enricher.initial.quality
          /\ enricher.pc = "returned" =>
                 /\ enricher.result.final_quality >= enricher.initial.quality
                 /\ enricher.result.improvement_delta >= 0
                 /\ enricher.result.improvement_delta =
                        enricher.result.final_quality - enricher.initial.quality)
    /\ [][(enricher.pc = "reclassifying"
            /\ Last(enricher'.classified).quality < enricher.current.quality) =>
              /\ enricher'.current = enricher.current
              /\ enricher'.result.final_beat = enricher.current.version]_vars

\* with min_improvement 0.0: a first rewrite was adopted, a second one
\* scored lower and the first one was returned
C19_Witness ==
    /\ enricher.pc = "returned"
    /\ enricher.min_improvement = 0
    /\ Len(enricher.classified) = 3
    /\ enricher.classified[3].quality < enricher.classified[2].quality
    /\ enricher.result.final_beat = 1
    /\ enricher.result.improvement_delta > 0

(***************************************************************************)
(* Properties of two interleaved runs                                      *)
(***************************************************************************)
\* the edges of the default graph: the next_node each default node can set
DefaultEdges ==
    {<<"ncp_load", "generate_beat">>, <<"generate_beat", "analyze_beat">>,
     <<"analyze_beat", "generate_beat">>, <<"analyze_beat", "should_continue">>,
     <<"analyze_beat", "output">>,
     <<"should_continue", "generate_beat">>, <<"should_continue", "output">>}

\* the executions of analyze_beat that counted a beat in stats: those with a
\* NodeResult, and the one that propagated its exception
AnalysesOf(results, position, node) ==
    Cardinality({i \in 1..Len(results) : results[i].node_id = "analyze_beat"})
        + (IF position = "raised" /\ node = "analyze_beat" THEN 1 ELSE 0)

\* what a run alone builds from its own node executions: a log that is a
\* path of the graph from the entry node, one entry per execution that did
\* not propagate, and beats counted by the run's own index and within the
\* run's own max_beats
BuiltAlone(position, ctx, bs, index, results, execs) ==
    /\ Len(results) = execs - (IF position = "raised" THEN 1 ELSE 0)
    /\ results # <<>> => results[1].node_id = EntryNode
    /\ \A i \in 1..(Len(results) - 1) :
           <<results[i].node_id, results[i + 1].node_id>> \in DefaultEdges
    /\ Len(bs) = index
    /\ Len(bs) <= ctx.max_beats
    /\ Len(bs) = Cardinality({i \in 1..Len(results) :
                                 /\ results[i].node_id = "generate_beat"
                                 /\ results[i].status = "COMPLETED"})

\* C13: two run() calls interleaved at their await points on one graph
\* object are isolated.  A step of the executing run leaves the locals of
\* the waiting run as they are; when the event loop switches, the run that
\* is left keeps its ncp_state, beats, current_beat_index,
\* enrichments_applied and node_results, and the run that is continued
\* finds its own as it left them; the log and the beats of either run are
\* those of a run alone, while the shared counter of the feedback loop has
\* counted the analyses of both.
C13_InterleavedRunsAreIsolated ==
    /\ [](/\ BuiltAlone(pc, context, beats, current_beat_index, node_results, executions)
          /\ BuiltAlone(suspended.pc, suspended.context, suspended.beats,
                        suspended.current_beat_index, suspended.node_results,
                        suspended.executions)
          /\ stats.beats_analyzed
                = AnalysesOf(node_results, pc, current_node)
                    + AnalysesOf(suspended.node_results, suspended.pc, suspended.current_node))
    /\ [][IF task' = task
          THEN suspended' = suspended
          ELSE /\ suspended'.ncp_state = ncp_state
               /\ suspended'.beats = beats
               /\ suspended'.current_beat_index = current_beat_index
               /\ suspended'.enrichments_applied = enrichments_applied
               /\ suspended'.node_results = node_results
               /\ ncp_state' = suspended.ncp_state
               /\ beats' = suspended.beats
               /\ current_beat_index' = suspended.current_beat_index
               /\ enrichments_applied' = suspended.enrichments_applied
               /\ node_results' = suspended.node_results]_vars

\* both runs have returned and hold different beats.  The first run is the
\* one that finished last: it was left at an await, the second run executed
\* its nodes in between, and the first run was continued afterwards
C13_Witness ==
    /\ pc = "done" /\ suspended.pc = "done"
    /\ Len(beats) = 2 /\ Len(suspended.beats) = 1
    /\ beats[1].emotional_tone # suspended.beats[1].emotional_tone
    /\ beats[2].enrichments_applied # <<>>
    /\ stats.beats_analyzed = Len(beats) + Len(suspended.beats)
    /\ task = 1

(***************************************************************************)
(* Properties of register_flow and _remediate_gaps                         *)
(***************************************************************************)
\* how often route r occurs in a list of routes
Occurrences(routes, r) == Cardinality({i \in 1..Len(routes) : routes[i] = r})

\* f is a route of the list for the type with minimal priority, or no
\* route when no route of the list has the type
SelectedByPriority(routes, gap_type, f) ==
    LET having == {i \in 1..Len(routes) : gap_type \in routes[i].gap_types}
    IN  IF having = {} THEN f = NoFlowRoute
        ELSE /\ \E i \in having : routes[i] = f
             /\ \A i \in having : f.priority <= routes[i].priority

\* the step is an iteration of the loop of _remediate_gaps
GapProcessed == Len(feedback'.log) = Len(feedback.log) + 1

\* C21: when a gap is routed to a flow registered through register_flow
\* with a custom handler, that handler is invoked for the gap, and the
\* Enrichment it returns with applied=true is applied to the beat: its
\* enriched content becomes the beat's raw_text.
C21_RegisteredHandlerInvoked ==
    [][(GapProcessed /\ Last(feedback'.log).flow.handler) =>
          /\ feedback'.handled = Append(feedback.handled, Last(feedback'.log).gap)
          /\ feedback'.current_beat.raw_text = "handled"]_vars

\* C22: after any sequence of register_flow calls, flow_routes holds the
\* default routes plus every registered route, sorted by ascending
\* priority; the route selected for a gap is a route whose gap_types
\* contain the gap's type and whose priority is minimal among all such
\* routes, or no route when none contains the type.
C22_RoutesSortedAndSelectedByPriority ==
    LET routes == feedback.flow_routes
    IN  /\ Len(routes) = Len(DefaultFlowRoutes) + Len(feedback.registered)
        /\ \A i \in 1..Len(routes) :
              Occurrences(routes, routes[i])
                 = Occurrences(DefaultFlowRoutes, routes[i])
                      + Occurrences(feedback.registered, routes[i])
        /\ \A i, j \in 1..Len(routes) : i < j => routes[i].priority <= routes[j].priority
        /\ \A t \in GapTypes : SelectedByPriority(routes, t, FindFlow(routes, t))
        /\ \A i \in 1..Len(feedback.log) :
              SelectedByPriority(routes, feedback.log[i].gap, feedback.log[i].flow)

\* two routes were registered, the later one with the lower priority; one
\* went in front of the default routes and takes emotional_weak from the
\* emotional flow, the other one went behind the default route of equal
\* priority; a gap of each kind was routed
C22_Witness ==
    /\ Len(feedback.registered) = 2
    /\ feedback.registered[1].priority = 3 /\ feedback.registered[2].priority = 0
    /\ feedback.flow_routes[1].flow_id = "tone_fix"
    /\ feedback.flow_routes[5].flow_id = "pacing_fix"
    /\ feedback.pc = "returned"
    /\ Len(feedback.log) = 3
    /\ feedback.log[1].flow.flow_id = "tone_fix"
    /\ feedback.log[2].flow.flow_id = "pacing_fix"
    /\ feedback.log[3].gap = "emotional_weak"

\* C23: during remediation, a gap for which no flow route matches, or whose
\* flow raises an exception, leaves the current beat unchanged, raises
\* nothing to the caller, and the next gap of the list is processed next;
\* a call that returns has processed every gap in the order of the list.
C23_UnroutedOrFailedGapIsSkipped ==
    /\ [](/\ feedback.pc = "remediating" => feedback.position \in 1..(Len(feedback.gaps) + 1)
          /\ feedback.pc = "returned" =>
                /\ Len(feedback.log) = Len(feedback.gaps)
                /\ \A i \in 1..Len(feedback.log) :
                      /\ feedback.log[i].position = i
                      /\ feedback.log[i].gap = feedback.gaps[i])
    /\ [][(GapProcessed /\ Last(feedback'.log).outcome \in {"no_flow", "raised"}) =>
             /\ feedback'.current_beat = feedback.current_beat
             /\ feedback'.pc = "remediating"
             /\ feedback'.position = feedback.position + 1]_vars

\* with the default routes: a pacing_issue gap without a route, then a gap
\* whose flow raised, then a gap whose enrichment was applied, and the
\* call has returned
C23_Witness ==
    /\ feedback.registered = <<>>
    /\ feedback.pc = "returned"
    /\ feedback.gaps = <<"pacing_issue", "emotional_weak", "emotional_weak">>
    /\ feedback.log[1].outcome = "no_flow"
    /\ feedback.log[2].outcome = "raised"
    /\ feedback.log[3].outcome = "applied"
    /\ feedback.log[3].before = OriginalBeat
    /\ feedback.current_beat.raw_text = "rewritten"

(***************************************************************************)
(* Properties of the character arc                                         *)
(***************************************************************************)
\* the fold of the claim: from 0, +0.1*impact for an ascending point,
\* -0.1*impact for a descending one, nothing for any other direction,
\* clamped to [0,1] after each step
RECURSIVE ClampedFold(_)
ClampedFold(points) ==
    IF points = <<>> THEN 0
    ELSE LET before == ClampedFold(SubSeq(points, 1, Len(points) - 1))
             point  == points[Len(points)]
             moved  == IF point.arc_direction = "ascending"
                       THEN before + point.impact_magnitude
                       ELSE IF point.arc_direction = "descending"
                       THEN before - point.impact_magnitude
                       ELSE before
         IN  IF moved < 0 THEN 0 ELSE IF moved > 1000 THEN 1000 ELSE moved

\* C24: after any sequence of add_arc_point calls with impact magnitudes in
\* [0,1], arc_position lies in [0,1] and equals the clamped fold over the
\* arc_points; each call appends exactly one point and leaves the earlier
\* points unchanged.
C24_ArcPositionIsClampedFold ==
    /\ [](/\ tracker.arc_position \in 0..1000
          /\ tracker.arc_position = ClampedFold(tracker.arc_points))
    /\ [][(\/ \E point \in AddedArcPoints : AddArcPoint(point)
           \/ RecordBeatImpact /\ tracker.tracked) =>
             /\ Len(tracker'.arc_points) = Len(tracker.arc_points) + 1
             /\ SubSeq(tracker'.arc_points, 1, Len(tracker.arc_points)) = tracker.arc_points]_vars

\* eleven ascending points of impact 1.0: the eleventh was clamped at 1.0
C24_Witness ==
    /\ Len(tracker.arc_points) = 11
    /\ \A i \in 1..11 : tracker.arc_points[i] = ArcPoint("ascending", 100)
    /\ tracker.arc_position = 1000

\* C25: initialize_character is an idempotent create: called for a
\* player_id that is already tracked, it leaves the character's arc_points
\* and arc_position unchanged.
C25_InitializeIsIdempotent ==
    [][(InitializeCharacter /\ tracker.tracked) =>
          /\ tracker'.arc_points = tracker.arc_points
          /\ tracker'.arc_position = tracker.arc_position]_vars

(***************************************************************************)
(* Properties of generate_beat_with_ncp                                    *)
(***************************************************************************)
\* C26: after any sequence of generate_beat_with_ncp calls, failed LLM
\* requests included, the NCPState has current_beat_index = len(beats), and
\* the beat_index values of its beats are unique and contiguous in
\* generation order: each is greater by exactly 1 than the previous one.
C26_BeatIndexContiguous ==
    /\ generator.current_beat_index = Len(generator.beats)
    /\ Len(generator.beats) = generator.llm_calls
    /\ \A i \in 1..(Len(generator.beats) - 1) :
          generator.beats[i + 1].beat_index = generator.beats[i].beat_index + 1
    /\ \A i, j \in 1..Len(generator.beats) :
          generator.beats[i].beat_index = generator.beats[j].beat_index => i = j

\* four calls, the second and the last with a failed LLM request
C26_Witness ==
    /\ Len(generator.beats) = 4
    /\ generator.beats[1].raw_text = "tagged"
    /\ generator.beats[2].raw_text = ""
    /\ generator.beats[3].raw_text = "prose"
    /\ generator.beats[4].raw_text = ""
    /\ generator.beats[4].beat_index = 4

\* C27: if the LLM call raises, generate_beat_with_ncp does not raise and
\* makes no second LLM attempt: it returns a beat with empty raw_text and
\* null structured fields, and that beat is appended to the NCPState with
\* the beat index advanced by one.
C27_LlmFailureGivesEmptyBeat ==
    [][(generator'.llm_calls # generator.llm_calls /\ generator'.last.llm = "raised") =>
          LET beat == generator'.last.beat
          IN  /\ generator'.llm_calls = generator.llm_calls + 1
              /\ beat.raw_text = ""
              /\ \A t \in BeatTags : beat[t] = None
              /\ generator'.beats = Append(generator.beats, beat)
              /\ generator'.current_beat_index = generator.current_beat_index + 1]_vars

\* the LLM request of the second call for a known character failed: the
\* empty beat is the second beat of the state
C27_Witness ==
    /\ generator.last.llm = "raised"
    /\ generator.character.tracked /\ generator.last.beat.character_id = "hero"
    /\ Len(generator.beats) = 2 /\ generator.beats[2] = generator.last.beat
    /\ generator.beats[1].raw_text = "tagged"
    /\ Len(generator.character.arc_points) = 2

(***************************************************************************)
(* Properties of classify_emotion                                          *)
(***************************************************************************)
\* C28: the analysis that classify_emotion returns has quality_score =
\* 0.20*confidence + 0.35*resonance_score + 0.25*specificity_score +
\* 0.20*authenticity_score of that same analysis, and a classification
\* whose LLM call raised has confidence 0, sub-scores 0 and quality_score 0
C28_QualityIsWeightedSum ==
    classifier.called =>
        LET a == classifier.analysis
        IN /\ a.quality_score = 20 * a.confidence + 35 * a.resonance_score
                                 + 25 * a.specificity_score + 20 * a.authenticity_score
           /\ classifier.outcome.raised =>
                 /\ a.confidence = 0
                 /\ a.resonance_score = 0
                 /\ a.specificity_score = 0
                 /\ a.authenticity_score = 0
                 /\ a.quality_score = 0

\* a classification with four different sub-scores, one of them the 0.5
\* that an unparsable value gives, and another the 0.0 of a line that the
\* response does not have: 0.20*0.9 + 0.35*0.4 + 0.25*0.5 + 0.20*0.0 = 0.445
C28_Witness ==
    /\ classifier.called
    /\ ~classifier.outcome.raised
    /\ classifier.outcome.response["SPECIFICITY_SCORE"] = "high"
    /\ classifier.outcome.response["AUTHENTICITY_SCORE"] = MissingLine
    /\ classifier.analysis.confidence = 90
    /\ classifier.analysis.resonance_score = 40
    /\ classifier.analysis.specificity_score = 50
    /\ classifier.analysis.authenticity_score = 0
    /\ classifier.analysis.quality_score = 4450

(***************************************************************************)
(* Properties of the order of the nodes                                    *)
(***************************************************************************)
\* the number of results that the node `id` has appended
ResultsOf(results, id) == Cardinality({i \in 1..Len(results) : results[i].node_id = id})

\* the last node that returned was generate_beat, and it completed
JustGenerated ==
    node_results # <<>> /\ Last(node_results) = NodeResult("generate_beat", "COMPLETED", None)

\* C31: in a run of the graph with its five default nodes, ncp_load is the
\* first node executed and is executed once; a completed generate_beat is
\* immediately followed by an execution of analyze_beat, and analyze_beat
\* executes only immediately after a completed generate_beat; so each beat
\* is analysed once, before the next beat is generated, and when
\* should_continue or output executes every beat has been analysed.
C31_NodeOrder ==
    /\ []((AllDefault /\ pc = "running" /\ JustGenerated) =>
             LoopRuns /\ current_node = "analyze_beat")
    /\ []((AllDefault /\ pc # "idle") =>
             ResultsOf(node_results, "analyze_beat") \in {Len(beats) - 1, Len(beats)})
    /\ [][(AllDefault /\ executions' = executions + 1) =>
             /\ (executions = 0) <=> (current_node = "ncp_load")
             /\ JustGenerated <=> (current_node = "analyze_beat")
             /\ current_node = "analyze_beat" =>
                    ResultsOf(node_results, "analyze_beat") = Len(beats) - 1
             /\ current_node = "generate_beat" =>
                    ResultsOf(node_results, "analyze_beat") = Len(beats)
             /\ current_node \in {"should_continue", "output"} =>
                    ResultsOf(node_results, "analyze_beat") = Len(beats)]_vars

\* a run of three beats, the first of them regenerated and the last one
\* followed by output: three analyses, none of them before its beat
C31_Witness ==
    /\ AllDefault
    /\ pc = "done"
    /\ Len(beats) = 3
    /\ beats[1].quality_score < RegenQuality
    /\ ResultsOf(node_results, "analyze_beat") = 3
    /\ ResultsOf(node_results, "ncp_load") = 1
    /\ ResultsOf(node_results, "should_continue") >= 1
    /\ Last(node_results).node_id = "output"

Dimensions == {"emotional", "character", "thematic"}

\* the primary score of a dimension of the analysis: quality_score,
\* consistency_score, presence_score; NotGiven when it was not analysed
PrimaryScore(analysis, dimension) ==
    CASE dimension = "emotional" -> analysis.emotional
      [] dimension = "character" -> analysis.character
      [] dimension = "thematic"  -> analysis.thematic

\* the positions of the gaps of a dimension in the gap list
GapsOf(gaps, dimension) == {i \in 1..Len(gaps) : gaps[i].dimension = dimension}

\* the analysed dimensions whose primary score is below the threshold
DimensionsBelow(analysis, gap_threshold) ==
    {d \in Dimensions : PrimaryScore(analysis, d) # NotGiven
                           /\ PrimaryScore(analysis, d) < gap_threshold}

\* the analysis of a beat whose text holds 'loss' and 'innocence' and not
\* 'of', under the theme 'loss of innocence': presence 2/3, and no thematic
\* gap at gap_threshold 0.6
ThemeExample ==
    (analyzer.text = "A Loss, then innocence." /\ analyzer.analysis.thematic # NotGiven) =>
        /\ 3 * analyzer.analysis.thematic = 2 * One
        /\ analyzer.gap_threshold = Hundredths(60) => GapsOf(analyzer.gaps, "thematic") = {}

\* C33 (as stated): the gap list has exactly one gap for each analysed
\* dimension whose primary score is strictly below gap_threshold, carrying
\* that score and the beat id of the analysis, and no gap for any other
\* dimension; the theme example gives 2/3 and no thematic gap.
C33_OneGapPerDimensionBelowThreshold ==
    analyzer.pc = "identified" =>
        /\ \A d \in Dimensions :
              IF d \in DimensionsBelow(analyzer.analysis, analyzer.gap_threshold)
              THEN /\ Cardinality(GapsOf(analyzer.gaps, d)) = 1
                   /\ \A i \in GapsOf(analyzer.gaps, d) :
                         /\ analyzer.gaps[i].score = PrimaryScore(analyzer.analysis, d)
                         /\ analyzer.gaps[i].beat_id = analyzer.analysis.beat_id
              ELSE GapsOf(analyzer.gaps, d) = {}
        /\ ThemeExample

\* C33 (amended): a dimension has a gap only if it was analysed with a
\* primary score strictly below gap_threshold, and then at most one, which
\* carries that score and the beat id of the analysis; a dimension below
\* the threshold has its gap unless max_gaps_per_beat gaps with scores not
\* above its own were kept in its place, so with max_gaps_per_beat >= 3
\* every such dimension has exactly one gap; the theme example gives 2/3
\* and no thematic gap.
C33_OneGapPerDimensionUnlessCapped ==
    analyzer.pc = "identified" =>
        /\ \A d \in Dimensions :
              IF d \in DimensionsBelow(analyzer.analysis, analyzer.gap_threshold)
              THEN /\ Cardinality(GapsOf(analyzer.gaps, d)) <= 1
                   /\ \A i \in GapsOf(analyzer.gaps, d) :
                         /\ analyzer.gaps[i].score = PrimaryScore(analyzer.analysis, d)
                         /\ analyzer.gaps[i].beat_id = analyzer.analysis.beat_id
                   /\ GapsOf(analyzer.gaps, d) = {} =>
                         /\ analyzer.max_gaps_per_beat < 3
                         /\ Len(analyzer.gaps) = analyzer.max_gaps_per_beat
                         /\ \A i \in 1..Len(analyzer.gaps) :
                               analyzer.gaps[i].score <= PrimaryScore(analyzer.analysis, d)
              ELSE GapsOf(analyzer.gaps, d) = {}
        /\ ThemeExample

\* the theme example under the default settings, with an emotional score
\* just below the threshold: one gap, the emotional one
C33_Witness ==
    /\ analyzer.pc = "identified"
    /\ analyzer.gap_threshold = Hundredths(60) /\ analyzer.max_gaps_per_beat = 3
    /\ analyzer.text = "A Loss, then innocence."
    /\ analyzer.analysis.emotional = Hundredths(59)
    /\ analyzer.analysis.character = One
    /\ 3 * analyzer.analysis.thematic = 2 * One
    /\ Len(analyzer.gaps) = 1
    /\ analyzer.gaps[1].dimension = "emotional" /\ analyzer.gaps[1].score = Hundredths(59)

\* C34: the gap list has at most max_gaps_per_beat entries and is sorted
\* by ascending score; when the cap removed gaps, no removed gap scores
\* lower than a gap that was kept.
C34_GapsCappedAndSorted ==
    analyzer.pc = "identified" =>
        LET gaps    == analyzer.gaps
            removed == {d \in DimensionsBelow(analyzer.analysis, analyzer.gap_threshold) :
                           GapsOf(gaps, d) = {}}
        IN  /\ Len(gaps) <= analyzer.max_gaps_per_beat
            /\ \A i, j \in 1..Len(gaps) : i < j => gaps[i].score <= gaps[j].score
            /\ \A d \in removed, i \in 1..Len(gaps) :
                  gaps[i].score <= PrimaryScore(analyzer.analysis, d)

\* three dimensions below the threshold, the emotional one with the
\* highest score, and a cap of 2: the thematic and the character gap are
\* kept, in this order
C34_Witness ==
    /\ analyzer.pc = "identified"
    /\ analyzer.max_gaps_per_beat = 2
    /\ analyzer.analysis.emotional = Hundredths(50)
    /\ analyzer.analysis.character = Hundredths(29)
    /\ analyzer.analysis.thematic = 0
    /\ Len(analyzer.gaps) = 2
    /\ analyzer.gaps[1].dimension = "thematic"
    /\ analyzer.gaps[2].dimension = "character"

\* C35: the severity of every gap is critical when its score is below 0.3,
\* major from 0.3 to below 0.5, and minor from 0.5 on.
C35_SeverityByScore ==
    \A i \in 1..Len(analyzer.gaps) :
        LET gap == analyzer.gaps[i]
        IN  gap.severity = IF 100 * gap.score < 30 * One THEN "critical"
                           ELSE IF 100 * gap.score < 50 * One THEN "major"
                           ELSE "minor"

\* gaps with the scores 0.29, 0.3 and 0.5: critical, major and minor
C35_Witness ==
    /\ analyzer.pc = "identified"
    /\ Len(analyzer.gaps) = 3
    /\ analyzer.gaps[1].score = Hundredths(29) /\ analyzer.gaps[1].severity = "critical"
    /\ analyzer.gaps[2].score = Hundredths(30) /\ analyzer.gaps[2].severity = "major"
    /\ analyzer.gaps[3].score = Hundredths(50) /\ analyzer.gaps[3].severity = "minor"

(***************************************************************************)
(* Properties of the arc points of generated beats                         *)
(***************************************************************************)
\* the tone contains a keyword of the set
MatchesKeyword(tone, keywords) ==
    tone # None /\ \E e \in keywords : IsSubstring(e, Lower(tone))

\* C36: generate_beat_with_ncp for a character the generator knows appends
\* exactly one ArcPoint, of impact_magnitude 0.3, whose direction is
\* ascending when the emotional_tone of the beat matches one of hope, joy,
\* triumph, love, confidence, else descending when it matches one of
\* despair, fear, grief, shame, defeat, else crisis when it matches one of
\* crisis, confrontation, turning, revelation, else static (a missing tone
\* included); a tone of 'hope' raises arc_position by 0.03, up to 1.  For a
\* character it does not know no ArcPoint is appended.
C36_ArcPointOfGeneratedBeat ==
    [][(generator'.llm_calls = generator.llm_calls + 1) =>
          LET beat   == generator'.last.beat
              tone   == beat.emotional_tone
              before == generator.character
              after  == generator'.character
          IN  IF beat.character_id = "hero" /\ before.tracked
              THEN /\ Len(after.arc_points) = Len(before.arc_points) + 1
                   /\ SubSeq(after.arc_points, 1, Len(before.arc_points)) = before.arc_points
                   /\ Last(after.arc_points).impact_magnitude = 30
                   /\ Last(after.arc_points).arc_direction =
                         IF MatchesKeyword(tone, {"hope", "joy", "triumph", "love", "confidence"})
                         THEN "ascending"
                         ELSE IF MatchesKeyword(tone, {"despair", "fear", "grief", "shame", "defeat"})
                         THEN "descending"
                         ELSE IF MatchesKeyword(tone, {"crisis", "confrontation", "turning",
                                                       "revelation"})
                         THEN "crisis"
                         ELSE "static"
                   /\ tone = "hope" =>
                         /\ Last(after.arc_points).arc_direction = "ascending"
                         /\ after.arc_position = Min(1000, before.arc_position + 30)
                   /\ tone = None => Last(after.arc_points).arc_direction = "static"
              ELSE after = before]_vars

\* four beats of the known character, with the tones 'hope', 'Hopeful
\* grief', 'revelation' and none: ascending, ascending, crisis, static, and
\* arc_position 0.06
C36_Witness ==
    /\ Len(generator.beats) = 4
    /\ \A i \in 1..4 : generator.beats[i].character_id = "hero"
    /\ generator.beats[1].emotional_tone = "hope"
    /\ generator.beats[2].emotional_tone = "Hopeful grief"
    /\ generator.beats[3].emotional_tone = "revelation"
    /\ generator.beats[4].emotional_tone = None
    /\ generator.character.arc_points =
          <<ArcPoint("ascending", 30), ArcPoint("ascending", 30), ArcPoint("crisis", 30),
            ArcPoint("static", 30)>>
    /\ generator.character.arc_position = 60

(***************************************************************************)
(* Properties of the result of analyze_and_enrich                          *)
(***************************************************************************)
\* C37: in the result of analyze_and_enrich, was_enriched is true exactly
\* when final_beat is a rewritten version of the beat: when final_beat is
\* the original beat (no rewrite attempted, or every rewrite rejected),
\* was_enriched is false.
C37_WasEnrichedIffRewriteAccepted ==
    enricher.pc = "returned" =>
        (enricher.result.was_enriched <=> enricher.result.final_beat # 0)

BeatEnrichments(bs) ==
    SumSeq([i \in 1..Len(bs) |-> Len(bs[i].enrichments_applied)])

\* some analyze_beat of the run has completed
AnalysisCompleted ==
    \E i \in 1..Len(node_results) :
        /\ node_results[i].node_id = "analyze_beat"
        /\ node_results[i].status = "COMPLETED"

\* C39: once an analyze_beat of a run has completed,
\* GraphState.enrichments_applied equals the sum, over the beats of the
\* state, of the lengths of their enrichments_applied lists.
C39_CounterIsSumOfBeatEnrichments ==
    (AllDefault /\ pc # "idle" /\ AnalysisCompleted) =>
        enrichments_applied = BeatEnrichments(beats)

\* analyze_beat has just completed on a third beat; two beats of the state
\* carry an enrichment and one carries none
C39_Witness ==
    /\ AllDefault
    /\ pc = "running"
    /\ Len(beats) = 3
    /\ Last(node_results).node_id = "analyze_beat"
    /\ Last(node_results).status = "COMPLETED"
    /\ enrichments_applied = 2
    /\ \E i \in 1..3 : beats[i].enrichments_applied = <<>>
    /\ Len(Last(beats).enrichments_applied) = 1

(***************************************************************************)
(* stream() against run()                                                  *)
(***************************************************************************)
\* the value run()'s current_node has where stream() stands: while stream()
\* is suspended in its yield loop, run() has already assigned state.next_node
RunCurrentNode == IF pc = "yielding" THEN next_node ELSE current_node

\* C40: stream() executes the nodes run() executes and leaves the same
\* GraphState: a node is executed only at the top of the loop, and the node
\* then selected is state.next_node, as in run(); the steps of stream()
\* that execute no node (the yields and the return) change nothing of the
\* GraphState and do not change the node to execute next; the loop starts
\* at the entry node with the GraphState run() starts with; and each beat
\* yielded is the beat generate_beat has just appended, at its position.
C40_StreamExecutesAsRun ==
    /\ []((mode = "stream" /\ Terminated) => Len(yielded) = Len(beats))
    /\ [][ /\ executions' = executions + 1 =>
               /\ pc = "running"
               /\ LoopRuns
               /\ (pc' # "raised" => RunCurrentNode' = next_node')
           /\ (executions' = executions /\ pc # "idle") =>
               /\ UNCHANGED graph_state
               /\ RunCurrentNode' = RunCurrentNode
               /\ (pc' = "done" => ~LoopRuns)
           /\ pc = "idle" =>
               /\ RunCurrentNode' = EntryNode
               /\ UNCHANGED <<beats, current_beat_index, enrichments_applied,
                              node_results, next_node, should_continue>>
           /\ yielded' # yielded =>
               /\ JustGenerated
               /\ Len(yielded') = Len(beats)
               /\ Last(yielded') = Last(beats)]_vars

\* a stream that yielded two beats, regenerated after the first one, and
\* ended at the output node after its sixth node execution
C40_Witness ==
    /\ mode = "stream"
    /\ pc = "done"
    /\ Len(yielded) = 2
    /\ executions = 6
    /\ Last(node_results).node_id = "output"
    /\ node_results[3].node_id = "analyze_beat"
    /\ node_results[4].node_id = "generate_beat"

====
